---- MODULE Spec2Model ----
(***************************************************************************)
(* Model of the cloud operation client of ns-cloud: CloudService           *)
(* (waitForServerOperationToFinish, getTransformedServerResult) and its    *)
(* specializations.  One service instance is modelled; the waits in Waits  *)
(* are calls of waitForServerOperationToFinish on that instance.           *)
(***************************************************************************)
EXTENDS Integers, Sequences, FiniteSets, TLC

VARIABLES
    kind,                   \* the specialization the service instance is
    outputCursorPosition,   \* CloudService.outputCursorPosition (instance field)
    waits,                  \* per call of waitForServerOperationToFinish: its closure and promise
    statusObject,           \* per operation: the object at serverInformation.statusUrl
    logLength,              \* per operation: length of the text at serverInformation.outputUrl
    delivered,              \* per operation: log positions handed to the caller, in order
    transformed,            \* the call of getTransformedServerResult: closure and promise
    transformedObject,      \* the object at transformedBuildResultUrl
    download,               \* the call of downloadServerResults and the local files
    operation,              \* the call of a publish or codesign operation
    classification          \* the calls of getError of publishToItunesConnect

vars == <<kind, outputCursorPosition, waits, statusObject, logLength, delivered,
          transformed, transformedObject, download, operation, classification>>

\* What the actions of the waits and of getTransformedServerResult leave alone.
componentVars == <<download, operation, classification>>

waitVars == <<kind, outputCursorPosition, waits, statusObject, logLength, delivered>>
transformedVars == <<transformed, transformedObject>>

(***************************************************************************)
(* Bounds of the model.                                                    *)
(***************************************************************************)
MaxTicks == 4       \* timer callbacks started per wait
MaxLog == 1         \* characters the backend writes to one operation's log

Waits == {"w1", "w2"}
FirstWait == "w1"

(***************************************************************************)
(* Program constants.                                                      *)
(***************************************************************************)
OPERATION_STATUS_CHECK_RETRY_COUNT == 8
OPERATION_COMPLETE_STATUS == "Success"
OPERATION_FAILED_STATUS == "Failed"
OPERATION_IN_PROGRESS_STATUS == "Building"
GET_TRANSFORMED_RESULT_MAX_WAIT == 3000
GET_TRANSFORMED_RESULT_REQUEST_INTERVAL == 500
GET_TRANSFORMED_RESULT_RETRIES_COUNT ==
    GET_TRANSFORMED_RESULT_MAX_WAIT \div GET_TRANSFORMED_RESULT_REQUEST_INTERVAL

\* A status string that is none of the three the code compares with.
OtherStatus == "Queued"
Statuses == {OPERATION_COMPLETE_STATUS, OPERATION_FAILED_STATUS,
             OPERATION_IN_PROGRESS_STATUS, OtherStatus}
LoggedStatuses == {OPERATION_COMPLETE_STATUS, OPERATION_FAILED_STATUS,
                   OPERATION_IN_PROGRESS_STATUS}

Kinds == {"Publish", "Codesign", "Build"}

\* outputCursorPosition is declared without a value: before the first wait
\* sets it, it is no position of a log.
UndefinedCursor == -1

(***************************************************************************)
(* The specializations.                                                    *)
(***************************************************************************)
PublishFailedError == "Publishing failed."
PublishFailedToStartError == "Failed to start publishing."
CodesignFailedError == "Generation of codesign files failed."
CodesignFailedToStartError == "Failed to start generation of codesign files."
BuildFailedError == "Build failed."
BuildFailedToStartError == "Failed to start cloud build."

failedError(k) ==
    CASE k = "Publish" -> PublishFailedError
      [] k = "Codesign" -> CodesignFailedError
      [] OTHER -> BuildFailedError

failedToStartError(k) ==
    CASE k = "Publish" -> PublishFailedToStartError
      [] k = "Codesign" -> CodesignFailedToStartError
      [] OTHER -> BuildFailedToStartError

\* A Codesign service whose getServerLogs fetches the log as Build's does.
HasNoServerLogs_PublishOnly(k) == k = "Publish"

\* getServerLogs of Publish and of Codesign has an empty body.
HasNoServerLogs(k) == k \in {"Publish", "Codesign"}

\* getServerLogs of Build: the text of the log after the cursor, as positions.
NewLogText(cursor, len) ==
    IF len > cursor THEN [i \in 1..(len - cursor) |-> cursor + i] ELSE <<>>

\* getServerLogs of Build: the cursor advanced by the text consumed.
AdvanceCursor(cursor, text) == cursor + Len(text)

(***************************************************************************)
(* Promises and the fetch of an object.                                    *)
(***************************************************************************)
\* A resolve or reject that replaces the outcome of a settled promise.
Settle_Overwrite(r, outcome, message) ==
    [r EXCEPT !.promise = outcome, !.error = message,
              !.ignored = IF r.promise = "pending" THEN @ ELSE @ \cup {outcome}]

\* resolve / reject of a Promise: only the first call settles it; a later call
\* is ignored (ignored keeps what the ignored calls asked for).
Settle(r, outcome, message) ==
    IF r.promise = "pending"
    THEN [r EXCEPT !.promise = outcome, !.error = message]
    ELSE [r EXCEPT !.ignored = @ \cup {outcome}]

\* getObjectFromS3File: what one fetch of an object gives, the object being obj
\* ("absent" when it is not there): the parsed object, or a failure of the
\* request or of JSON.parse.
FetchOutcomes(obj) ==
    {"networkError", "malformedJSON"} \cup (IF obj = "absent" THEN {} ELSE {obj})

IsFailure(o) == o \in {"networkError", "malformedJSON"}

(***************************************************************************)
(* waitForServerOperationToFinish                                          *)
(***************************************************************************)
IdleWait ==
    [ stage |-> "idle",            \* idle, retrying, polling, notStarted
      promise |-> "none",          \* none, pending, resolved, rejected
      error |-> "",
      ignored |-> {},              \* outcomes asked for after the promise had settled
      attempts |-> 0,              \* attempts of the first status fetch
      causes |-> {},               \* failures of the first status fetch
      serverStatus |-> "none",     \* the closure's serverStatus.status
      interval |-> FALSE,          \* serverIntervalId is set and not cleared
      ticks |-> 0,                 \* timer callbacks started
      awaitingLogs |-> [s \in LoggedStatuses |-> 0],   \* callbacks at await getServerLogs
      awaitingStatus |-> 0,        \* callbacks at await getObjectFromS3File
      statusSeq |-> <<>>,          \* the status objects read, in order
      logSeq |-> <<>>,             \* the getServerLogs calls: cursor and status seen
      overlapped |-> FALSE,        \* a callback started while another was running
      logFailed |-> FALSE,         \* a getServerLogs call of a callback failed
      fetchFailed |-> FALSE ]      \* a status fetch of a callback failed

InFlight(r) ==
    r.awaitingStatus + r.awaitingLogs[OPERATION_COMPLETE_STATUS]
      + r.awaitingLogs[OPERATION_FAILED_STATUS]
      + r.awaitingLogs[OPERATION_IN_PROGRESS_STATUS]

\* A retry operation that allows one retry more than it was given.
RetryAgain_OneMore(n) == n <= OPERATION_STATUS_CHECK_RETRY_COUNT + 1

\* promise-retry with retries: OPERATION_STATUS_CHECK_RETRY_COUNT: after n
\* attempts have failed, another one is made while retries are left.
RetryAgain(n) == n <= OPERATION_STATUS_CHECK_RETRY_COUNT

\* A then-callback that also runs when promiseRetry has rejected.
promiseRetryRejected_StartsTimer(r) ==
    Settle([r EXCEPT !.stage = "notStarted", !.interval = TRUE],
           "rejected", failedToStartError(kind))

\* promiseRetry rejects with the error of the last attempt: the then-callback
\* is skipped and the returned promise rejects with it.
promiseRetryRejected(r) ==
    Settle([r EXCEPT !.stage = "notStarted"], "rejected", failedToStartError(kind))

clearInterval(r) == [r EXCEPT !.interval = FALSE]

\* A callback that gives up on a status in progress once three have started.
AfterServerLogs_Deadline(r, st) ==
    CASE st = OPERATION_COMPLETE_STATUS ->
           Settle(clearInterval(r), "resolved", "")
      [] st = OPERATION_FAILED_STATUS ->
           Settle(clearInterval(r), "rejected", failedError(kind))
      [] OTHER ->
           IF r.ticks >= 3
           THEN Settle(clearInterval(r), "rejected", failedError(kind))
           ELSE [r EXCEPT !.awaitingStatus = @ + 1]

\* The callback after its await of getServerLogs, for the status it saw.
AfterServerLogs(r, st) ==
    CASE st = OPERATION_COMPLETE_STATUS ->
           Settle(clearInterval(r), "resolved", "")
      [] st = OPERATION_FAILED_STATUS ->
           Settle(clearInterval(r), "rejected", failedError(kind))
      [] OTHER ->
           [r EXCEPT !.awaitingStatus = @ + 1]

\* A callback that calls getServerLogs on the terminal statuses only.
CallServerLogs_NotInProgress(r, st) ==
    IF st = OPERATION_IN_PROGRESS_STATUS
    THEN r
    ELSE [r EXCEPT !.logSeq = Append(@, [cursor |-> outputCursorPosition, status |-> st])]

\* A callback that rejects on Failed without calling getServerLogs.
CallServerLogs_NotOnFailed(r, st) ==
    IF st = OPERATION_FAILED_STATUS
    THEN r
    ELSE [r EXCEPT !.logSeq = Append(@, [cursor |-> outputCursorPosition, status |-> st])]

\* The call getServerLogs(outputUrl, operationId) of a callback.
CallServerLogs(r, st) ==
    [r EXCEPT !.logSeq = Append(@, [cursor |-> outputCursorPosition, status |-> st])]

\* The call of waitForServerOperationToFinish: promiseRetry is started.
waitForServerOperationToFinish(w) ==
    /\ waits[w].stage = "idle"
    /\ waits' = [waits EXCEPT ![w] = [@ EXCEPT !.stage = "retrying", !.promise = "pending"]]
    /\ UNCHANGED <<kind, outputCursorPosition, statusObject, logLength, delivered>>
    /\ UNCHANGED <<transformedVars, componentVars>>

\* One attempt of promiseRetry: the fetch of the first status object.
FirstStatusAttempt(w) ==
    /\ waits[w].stage = "retrying"
    /\ \E o \in FetchOutcomes(statusObject[w]) :
         LET r == [waits[w] EXCEPT !.attempts = @ + 1] IN
         IF IsFailure(o)
         THEN /\ waits' = [waits EXCEPT ![w] =
                    IF RetryAgain(r.attempts)
                    THEN [r EXCEPT !.causes = @ \cup {o}]
                    ELSE promiseRetryRejected([r EXCEPT !.causes = @ \cup {o}])]
              /\ UNCHANGED outputCursorPosition
         ELSE \* promiseRetry is over; the then-callback sets the cursor and the timer
              /\ waits' = [waits EXCEPT ![w] =
                    [r EXCEPT !.stage = "polling", !.attempts = 0, !.causes = {},
                              !.serverStatus = o, !.statusSeq = Append(@, o),
                              !.interval = TRUE]]
              /\ outputCursorPosition' = 0
    /\ UNCHANGED <<kind, statusObject, logLength, delivered>>
    /\ UNCHANGED <<transformedVars, componentVars>>

\* The timer fires: one run of the setInterval callback up to its first await
\* that takes time.
\* A callback that calls getServerLogs whatever the status is.
TimerCallback_LogsAnyStatus(r0) ==
    LET st == r0.serverStatus
        r == [r0 EXCEPT !.ticks = @ + 1, !.overlapped = @ \/ InFlight(r0) > 0]
    IN
    IF st \in LoggedStatuses
    THEN IF HasNoServerLogs(kind)
         THEN AfterServerLogs(CallServerLogs(r, st), st)
         ELSE [CallServerLogs(r, st) EXCEPT !.awaitingLogs[st] = @ + 1]
    ELSE [CallServerLogs(r, st) EXCEPT !.awaitingStatus = @ + 1]

TimerCallback(r0) ==
    LET st == r0.serverStatus
        r == [r0 EXCEPT !.ticks = @ + 1, !.overlapped = @ \/ InFlight(r0) > 0]
    IN
    IF st \in LoggedStatuses
    THEN IF HasNoServerLogs(kind)
         THEN AfterServerLogs(CallServerLogs(r, st), st)
         ELSE [CallServerLogs(r, st) EXCEPT !.awaitingLogs[st] = @ + 1]
    ELSE [r EXCEPT !.awaitingStatus = @ + 1]

IntervalTick(w) ==
    /\ waits[w].interval
    /\ waits[w].ticks < MaxTicks
    /\ waits' = [waits EXCEPT ![w] = TimerCallback(@)]
    /\ UNCHANGED <<kind, outputCursorPosition, statusObject, logLength, delivered>>
    /\ UNCHANGED <<transformedVars, componentVars>>

\* getServerLogs of Build returns to the callback that awaits it.
ServerLogsReturn(w, st) ==
    LET r == [waits[w] EXCEPT !.awaitingLogs[st] = @ - 1]
        text == NewLogText(outputCursorPosition, logLength[w])
    IN
    /\ waits[w].awaitingLogs[st] > 0
    /\ waits' = [waits EXCEPT ![w] = AfterServerLogs(r, st)]
    /\ delivered' = [delivered EXCEPT ![w] = @ \o text]
    /\ outputCursorPosition' = AdvanceCursor(outputCursorPosition, text)
    /\ UNCHANGED <<kind, statusObject, logLength>>
    /\ UNCHANGED <<transformedVars, componentVars>>

\* getServerLogs of Build fails: the callback ends with that error.
ServerLogsFail(w, st) ==
    /\ waits[w].awaitingLogs[st] > 0
    /\ waits' = [waits EXCEPT ![w] =
                    [@ EXCEPT !.awaitingLogs[st] = @ - 1, !.logFailed = TRUE]]
    /\ UNCHANGED <<kind, outputCursorPosition, statusObject, logLength, delivered>>
    /\ UNCHANGED <<transformedVars, componentVars>>

\* A callback that reads the status object and does not assign it.
StatusFetched_KeepsStatus(r, o) ==
    IF IsFailure(o)
    THEN [r EXCEPT !.awaitingStatus = @ - 1, !.fetchFailed = TRUE]
    ELSE [r EXCEPT !.awaitingStatus = @ - 1, !.statusSeq = Append(@, o)]

\* A callback that rejects the wait when its status fetch fails.
StatusFetched_RejectsOnFailure(r, o) ==
    IF IsFailure(o)
    THEN Settle(clearInterval([r EXCEPT !.awaitingStatus = @ - 1, !.fetchFailed = TRUE]),
                "rejected", failedError(kind))
    ELSE [r EXCEPT !.awaitingStatus = @ - 1, !.serverStatus = o,
                   !.statusSeq = Append(@, o)]

\* The callback after its await of getObjectFromS3File, which gave o:
\* serverStatus is assigned, or the callback ends with the error of the fetch.
StatusFetched(r, o) ==
    IF IsFailure(o)
    THEN [r EXCEPT !.awaitingStatus = @ - 1, !.fetchFailed = TRUE]
    ELSE [r EXCEPT !.awaitingStatus = @ - 1, !.serverStatus = o,
                   !.statusSeq = Append(@, o)]

\* The status fetch of a callback returns.
StatusFetchReturn(w) ==
    /\ waits[w].awaitingStatus > 0
    /\ \E o \in FetchOutcomes(statusObject[w]) :
         waits' = [waits EXCEPT ![w] = StatusFetched(@, o)]
    /\ UNCHANGED <<kind, outputCursorPosition, statusObject, logLength, delivered>>
    /\ UNCHANGED <<transformedVars, componentVars>>

(***************************************************************************)
(* The wait without its history, for the checks of what happens in the     *)
(* end: the counts and the sequences that only record what has happened    *)
(* are dropped, so that the timer can fire any number of times.            *)
(***************************************************************************)
MaxOverlap == 2     \* timer callbacks of one wait that run at the same time

Forget(r) == [r EXCEPT !.ticks = 0, !.statusSeq = <<>>, !.logSeq = <<>>]

\* The timer fires, any number of times.
IntervalTickFair(w) ==
    /\ waits[w].interval
    /\ InFlight(waits[w]) < MaxOverlap
    /\ waits' = [waits EXCEPT ![w] = Forget(TimerCallback(@))]
    /\ UNCHANGED <<kind, outputCursorPosition, statusObject, logLength, delivered>>
    /\ UNCHANGED <<transformedVars, componentVars>>

\* The status fetch of a callback returns with o.
StatusFetchReturnFair(w, o) ==
    /\ waits[w].awaitingStatus > 0
    /\ o \in FetchOutcomes(statusObject[w])
    /\ waits' = [waits EXCEPT ![w] = Forget(StatusFetched(@, o))]
    /\ UNCHANGED <<kind, outputCursorPosition, statusObject, logLength, delivered>>
    /\ UNCHANGED <<transformedVars, componentVars>>

(***************************************************************************)
(* The backend: it writes the status object and appends to the log.        *)
(***************************************************************************)
\* Somebody still reads the objects of the operation of wait w.
IsRead(r) ==
    \/ r.stage = "retrying"
    \/ r.stage = "polling" /\ (r.interval \/ InFlight(r) > 0)

BackendWriteStatus(w) ==
    /\ IsRead(waits[w])
    /\ \E s \in Statuses :
         /\ s /= statusObject[w]
         /\ statusObject' = [statusObject EXCEPT ![w] = s]
    /\ UNCHANGED <<kind, outputCursorPosition, waits, logLength, delivered>>
    /\ UNCHANGED <<transformedVars, componentVars>>

BackendAppendLog(w) ==
    /\ IsRead(waits[w])
    /\ logLength[w] < MaxLog
    /\ logLength' = [logLength EXCEPT ![w] = @ + 1]
    /\ UNCHANGED <<kind, outputCursorPosition, waits, statusObject, delivered>>
    /\ UNCHANGED <<transformedVars, componentVars>>

(***************************************************************************)
(* getTransformedServerResult                                              *)
(***************************************************************************)
TransformedResults == {"result1", "result2"}

IdleTransformed ==
    [ promise |-> "none",        \* none, pending, resolved, rejected
      value |-> "none",          \* what the promise resolved with: "null" or an object
      retriesCount |-> 1,
      interval |-> FALSE,        \* intervalId is set and not cleared
      ticks |-> 0,               \* times the timer has fired since the call
      awaiting |-> 0,            \* callbacks at await getObjectFromS3File
      started |-> 0,             \* fetch attempts started
      results |-> <<>>,          \* what the attempts ended with, in the order they ended
      settledAfter |-> 0 ]       \* how many attempts had ended when the promise settled

\* resolve(v) of the promise of getTransformedServerResult.
TransformedResolve(t, v) ==
    IF t.promise = "pending"
    THEN [t EXCEPT !.promise = "resolved", !.value = v, !.settledAfter = Len(t.results)]
    ELSE t

\* A test that lets one attempt more through.
RetriesUsedUp_OneMore(n) == n > GET_TRANSFORMED_RESULT_RETRIES_COUNT + 1

\* The test of the callback: are the retries used up?
RetriesUsedUp(n) == n > GET_TRANSFORMED_RESULT_RETRIES_COUNT

\* A catch block that hands the error to the caller.
TransformedCatch_Rethrow(t) ==
    IF t.promise = "pending"
    THEN [t EXCEPT !.promise = "rejected", !.interval = FALSE,
                   !.settledAfter = Len(t.results)]
    ELSE t

\* The catch block of the callback: the error is traced, nothing else.
TransformedCatch(t) == t

\* The call: the promise is made, retriesCount is 1 and the timer is set.
getTransformedServerResult ==
    /\ transformed.promise = "none"
    /\ transformed' = [transformed EXCEPT !.promise = "pending", !.retriesCount = 1,
                                          !.interval = TRUE]
    /\ UNCHANGED transformedObject
    /\ UNCHANGED <<waitVars, componentVars>>

\* The timer fires: the callback up to its await.
TransformedTick ==
    /\ transformed.interval
    /\ transformed' =
         IF RetriesUsedUp(transformed.retriesCount)
         THEN TransformedResolve([transformed EXCEPT !.interval = FALSE,
                                                     !.ticks = @ + 1], "null")
         ELSE [transformed EXCEPT !.retriesCount = @ + 1, !.started = @ + 1,
                                  !.awaiting = @ + 1, !.ticks = @ + 1]
    /\ UNCHANGED transformedObject
    /\ UNCHANGED <<waitVars, componentVars>>

\* The fetch of a callback returns.
TransformedFetchReturn ==
    /\ transformed.awaiting > 0
    /\ \E o \in FetchOutcomes(transformedObject) :
         LET t == [transformed EXCEPT !.awaiting = @ - 1] IN
         transformed' =
            IF IsFailure(o)
            THEN TransformedCatch([t EXCEPT !.results = Append(@, "failed")])
            ELSE TransformedResolve([t EXCEPT !.results = Append(@, o),
                                              !.interval = FALSE], o)
    /\ UNCHANGED transformedObject
    /\ UNCHANGED <<waitVars, componentVars>>

\* The backend writes the transformed result.
BackendWriteTransformed ==
    /\ transformed.interval \/ transformed.awaiting > 0
    /\ \E o \in TransformedResults :
         /\ o /= transformedObject
         /\ transformedObject' = o
    /\ UNCHANGED transformed
    /\ UNCHANGED <<waitVars, componentVars>>

(***************************************************************************)
(* downloadServerResults                                                   *)
(***************************************************************************)
MaxItems == 3       \* buildItems of one server result

DISPOSITION_CERTIFICATE == "Certificate"
DISPOSITION_PROVISION == "Provision"
DISPOSITION_BUILD_RESULT == "BuildResult"
Dispositions == {DISPOSITION_CERTIFICATE, DISPOSITION_PROVISION, DISPOSITION_BUILD_RESULT}
CODESIGN_FILES_DIR_NAME == "codesign_files"
BuildOutputDirName == "build"

Filenames == {"a.p12", "b.mobileprovision"}
ProjectDir == "proj"
Platforms == {"iOS", "Android"}

\* platform.toLowerCase()
toLowerCase(p) == IF p = "iOS" THEN "ios" ELSE IF p = "Android" THEN "android" ELSE p

\* A server item; fullPath is the url of the artifact, one per position.
ServerItem(d, f, i) == [disposition |-> d, filename |-> f, fullPath |-> <<"url", i>>]

\* The buildItems a server result can hold: up to MaxItems items.
BuildItems ==
    UNION { { [i \in 1..n |-> ServerItem(ds[i], fs[i], i)] :
                ds \in [1..n -> Dispositions], fs \in [1..n -> Filenames] } :
            n \in 0..MaxItems }

OutputOptions ==
    [projectDir : {ProjectDir}, platform : Platforms, emulator : BOOLEAN]

\* path.join: a path is the sequence of its segments, "" adds no segment.
PathJoin(parts) == SelectSeq(parts, LAMBDA s : s /= "")

IsCodesignItem(item) ==
    item.disposition \in {DISPOSITION_CERTIFICATE, DISPOSITION_PROVISION}

\* getServerResults of the specialization.
getServerResults(k, buildItems) ==
    IF k = "Publish" THEN <<>>
    ELSE IF k = "Codesign" THEN SelectSeq(buildItems, IsCodesignItem)
    ELSE buildItems

\* getServerOperationOutputDirectory of the specialization.
getServerOperationOutputDirectory(k, options) ==
    IF k = "Publish" THEN PathJoin(<<"">>)
    ELSE IF k = "Codesign"
    THEN PathJoin(<<options.projectDir, CODESIGN_FILES_DIR_NAME,
                    toLowerCase(options.platform)>>)
    ELSE PathJoin(<<options.projectDir, BuildOutputDirName,
                    toLowerCase(options.platform),
                    IF options.emulator THEN "emulator" ELSE "device">>)

\* A target file name that leaves the destination directory out.
TargetFileName_NoDirectory(destinationDir, item) == PathJoin(<<item.filename>>)

\* path.join(destinationDir, serverResultObj.filename)
TargetFileName(destinationDir, item) == destinationDir \o PathJoin(<<item.filename>>)

\* The file system: the files are pairs of a path and what was written there.
WriteFile(files, path, content) ==
    {f \in files : f.path /= path} \cup {[path |-> path, content |-> content]}

IdleDownload ==
    [ stage |-> "idle",          \* idle, transferring, returned, failed
      options |-> "none",
      buildItems |-> <<>>,       \* serverResult.buildItems
      destinationDir |-> <<>>,
      directories |-> {},        \* directories ensured to exist
      serverResultObjs |-> <<>>, \* the items selected by getServerResults
      targetFileNames |-> <<>>,
      streams |-> <<>>,          \* paths of the write streams created, in order
      requests |-> <<>>,         \* urls of the transfers started, in order
      ended |-> 0,               \* transfers that completed or failed
      files |-> {},              \* the local files
      returned |-> <<>> ]        \* the list the call returned

\* A loop that starts the transfers of all the items before it awaits one.
DownloadLoop_AllAtOnce(d) ==
    IF d.requests = <<>> /\ d.serverResultObjs /= <<>>
    THEN LET names == [i \in 1..Len(d.serverResultObjs) |->
                         TargetFileName(d.destinationDir, d.serverResultObjs[i])] IN
         [d EXCEPT !.stage = "transferring",
                   !.targetFileNames = names,
                   !.streams = names,
                   !.requests = [i \in 1..Len(d.serverResultObjs) |->
                                    d.serverResultObjs[i].fullPath]]
    ELSE IF d.ended < Len(d.requests) THEN d
    ELSE [d EXCEPT !.stage = "returned", !.returned = d.targetFileNames]

\* One turn of the for loop up to its await, or the return after the loop.
DownloadLoop(d) ==
    LET n == Len(d.requests) IN
    IF n < Len(d.serverResultObjs)
    THEN LET item == d.serverResultObjs[n + 1]
             targetFileName == TargetFileName(d.destinationDir, item) IN
         [d EXCEPT !.stage = "transferring",
                   !.targetFileNames = Append(@, targetFileName),
                   !.streams = Append(@, targetFileName),
                   !.files = WriteFile(@, targetFileName, "empty"),
                   !.requests = Append(@, item.fullPath)]
    ELSE [d EXCEPT !.stage = "returned", !.returned = d.targetFileNames]

\* A failed transfer that takes the files written so far away again.
TransferRejected_RollsBack(d) ==
    [d EXCEPT !.stage = "failed", !.ended = @ + 1, !.files = {}]

\* httpRequest rejects: the error leaves downloadServerResults as it is.
TransferRejected(d) == [d EXCEPT !.stage = "failed", !.ended = @ + 1]

\* The call, up to the first await or to the return.
downloadServerResults ==
    /\ download.stage = "idle"
    /\ \E items \in BuildItems, options \in OutputOptions :
         LET destinationDir == getServerOperationOutputDirectory(kind, options) IN
         download' = DownloadLoop(
             [download EXCEPT !.options = options,
                              !.buildItems = items,
                              !.destinationDir = destinationDir,
                              !.directories = @ \cup {destinationDir},
                              !.serverResultObjs = getServerResults(kind, items)])
    /\ UNCHANGED <<waitVars, transformedVars, operation, classification>>

\* The transfer in flight ends: the artifact is in its file, the loop goes on.
TransferDone ==
    /\ download.stage = "transferring"
    /\ LET n == Len(download.requests) IN
       download' = DownloadLoop(
           [download EXCEPT !.files = WriteFile(@, download.targetFileNames[n],
                                                download.requests[n]),
                            !.ended = @ + 1])
    /\ UNCHANGED <<waitVars, transformedVars, operation, classification>>

\* The transfer in flight fails.
TransferFail ==
    /\ download.stage = "transferring"
    /\ download' = TransferRejected(download)
    /\ UNCHANGED <<waitVars, transformedVars, operation, classification>>

(***************************************************************************)
(* Error classification of CloudPublishService: getFormattedError and      *)
(* getError. A string is the sequence of its tokens, EOL being one.        *)
(***************************************************************************)
MaxLines == 5       \* lines of the message given to getFormattedError
MaxStdoutLines == 3 \* lines of the stdout of a publish result
MaxCalls == 2       \* calls of getError on one service instance

EOL == "\n"
ITMS_ERROR_REGEX == "[Transporter Error Output]:"
GENERAL_ERROR_REGEX == "[!]"
FASTLANE_MULTIPLE_TEAMS_FOUND_ERROR == "Multiple iTunes Connect Teams found"

\* IOS_TEAMS_REGEX: a number with a bracket, a quoted name, a bracketed text.
TeamNumbers == {"1)", "2)"}
TeamNames == {"Team A", "Team B"}
TeamIds == {"(111)", "(222)"}
Quoted(name) == IF name = "Team A" THEN "\"Team A\"" ELSE "\"Team B\""
IsQuoted(token) == token \in {Quoted(name) : name \in TeamNames}
Unquoted(token) == CHOOSE name \in TeamNames : Quoted(name) = token

\* array.join(EOL)
RECURSIVE join(_)
join(list) ==
    IF list = <<>> THEN <<>>
    ELSE IF Len(list) = 1 THEN list[1]
    ELSE list[1] \o <<EOL>> \o join(Tail(list))

\* _.includes(string, part) and string.indexOf(part) > -1
includes(string, part) ==
    \E i \in 1..(Len(string) - Len(part) + 1) :
        SubSeq(string, i, i + Len(part) - 1) = part

\* The elements of list at the positions of the set, in the order of the list.
AtPositions(list, positions) ==
    [k \in 1..Cardinality(positions) |->
        list[CHOOSE i \in positions : Cardinality({j \in positions : j <= i}) = k]]

\* The end of the line position i is in.
LineEnd(string, i) ==
    IF \E j \in i..Len(string) : string[j] = EOL
    THEN (CHOOSE j \in i..Len(string) :
              string[j] = EOL /\ \A h \in i..(j - 1) : string[h] /= EOL) - 1
    ELSE Len(string)

\* string.match(/marker.*/g): from every line that holds the marker, the text
\* from the first marker of the line to the end of the line.
match(string, marker) ==
    LET starts == {i \in 1..Len(string) :
                      /\ string[i] = marker
                      /\ \A j \in 1..(i - 1) :
                            string[j] = marker => LineEnd(string, j) < i}
    IN AtPositions([i \in 1..Len(string) |-> SubSeq(string, i, LineEnd(string, i))],
                   starts)

\* A uniq that drops a value only when it repeats the one before it.
uniq_Consecutive(list) ==
    AtPositions(list, {i \in 1..Len(list) : i = 1 \/ list[i - 1] /= list[i]})

\* _.uniq: the first occurrence of every value, in the order of the list.
uniq(list) ==
    AtPositions(list, {i \in 1..Len(list) : \A j \in 1..(i - 1) : list[j] /= list[i]})

\* getFormattedError(message, regex)
getFormattedError(message, regex) == join(uniq(match(message, regex)))

\* IOS_TEAMS_REGEX.exec(string) with the regex at lastIndex: the first match
\* at or after lastIndex; index 0 stands for null.
exec(string, lastIndex) ==
    LET starts == {i \in (lastIndex + 1)..(Len(string) - 2) :
                      /\ string[i] \in TeamNumbers
                      /\ IsQuoted(string[i + 1])
                      /\ string[i + 2] \in TeamIds}
    IN IF starts = {}
       THEN [index |-> 0, group |-> "none", lastIndex |-> lastIndex]
       ELSE LET i == CHOOSE i \in starts : \A j \in starts : i <= j
            IN [index |-> i, group |-> Unquoted(string[i + 1]), lastIndex |-> i + 2]

\* An exec that finds nothing and leaves lastIndex where it was.
execFailed_KeepsLastIndex(lastIndex) == lastIndex

\* exec of a global regex sets lastIndex to 0 when it finds nothing.
execFailed(lastIndex) == 0

\* while (matches = IOS_TEAMS_REGEX.exec(stdout)) teamNames.push(matches[1])
RECURSIVE TeamNamesLoop(_, _, _)
TeamNamesLoop(stdout, lastIndex, teamNames) ==
    LET matches == exec(stdout, lastIndex) IN
    IF matches.index = 0
    THEN [teamNames |-> teamNames, lastIndex |-> execFailed(matches.lastIndex)]
    ELSE TeamNamesLoop(stdout, matches.lastIndex, Append(teamNames, matches.group))

\* The lines a stdout or a stderr is made of.
TeamLine(number, name, id) == <<number, Quoted(name), id>>
StdoutLines ==
    { TeamLine("1)", "Team A", "(111)"), TeamLine("2)", "Team B", "(222)"),
      <<ITMS_ERROR_REGEX, "The ipa is invalid">> }
MessageLines ==
    { <<GENERAL_ERROR_REGEX, "Something failed">>,
      <<GENERAL_ERROR_REGEX, "Other failure">>,
      <<"[12:00:01]:", GENERAL_ERROR_REGEX, "Something failed">>,
      <<ITMS_ERROR_REGEX, "The ipa is invalid">> }

\* The strings of up to n lines of the set.
StringsOf(lines, n) ==
    UNION { { join(list) : list \in [1..h -> lines] } : h \in 0..n }

Stdouts == StringsOf(StdoutLines, MaxStdoutLines)
Stderrs ==
    { <<GENERAL_ERROR_REGEX, "Something failed">>,
      <<GENERAL_ERROR_REGEX, "Something failed", EOL,
        GENERAL_ERROR_REGEX, FASTLANE_MULTIPLE_TEAMS_FOUND_ERROR>> }
ErrorsTexts == { <<>>, <<"Command failed">> }
PackagePaths == <<"app.ipa">>

\* Results for which publishCore calls getError: code is set; getError does
\* not read it.
FailedPublishResults ==
    [code : {1}, errors : ErrorsTexts, stdout : Stdouts, stderr : Stderrs]

\* new Error(message)
NewError(message) ==
    [ message |-> message,
      hasTeamNames |-> FALSE, teamNames |-> <<>>,
      hasPackagePaths |-> FALSE, packagePaths |-> <<>>,
      hasStderr |-> FALSE, stderr |-> <<>>,
      hasStdout |-> FALSE, stdout |-> <<>>,
      hasBuildId |-> FALSE ]     \* buildId and cloudOperationId are set

\* getError of publishToItunesConnect, with IOS_TEAMS_REGEX at lastIndex:
\* the error and where the regex is left.
ItunesConnectGetError(publishResult, packagePaths, lastIndex) ==
    LET itmsMessage == getFormattedError(publishResult.stdout, ITMS_ERROR_REGEX)
        generalMessage == getFormattedError(publishResult.stderr, GENERAL_ERROR_REGEX)
        err == NewError(publishResult.errors \o <<EOL>> \o itmsMessage
                        \o <<EOL>> \o generalMessage)
    IN IF includes(publishResult.stderr, <<FASTLANE_MULTIPLE_TEAMS_FOUND_ERROR>>)
       THEN LET loop == TeamNamesLoop(publishResult.stdout, lastIndex, <<>>) IN
            [ err |-> [err EXCEPT !.hasTeamNames = TRUE, !.teamNames = loop.teamNames,
                                  !.hasPackagePaths = TRUE,
                                  !.packagePaths = packagePaths],
              lastIndex |-> loop.lastIndex ]
       ELSE [ err |-> err, lastIndex |-> lastIndex ]

\* A getError of publishToGooglePlay that looks for the teams as the one of
\* publishToItunesConnect does.
GooglePlayGetError_WithTeams(publishResult) ==
    ItunesConnectGetError(publishResult, PackagePaths, 0).err

\* getError of publishToGooglePlay
GooglePlayGetError(publishResult) ==
    LET generalMessage == getFormattedError(publishResult.stderr, GENERAL_ERROR_REGEX)
    IN NewError(publishResult.errors \o <<EOL>> \o generalMessage)

IdleClassification ==
    [ lastIndex |-> 0,           \* IOS_TEAMS_REGEX.lastIndex, static of the class
      calls |-> 0,               \* calls of getError so far
      platform |-> "none",       \* the platform of the last getError
      publishResult |-> [code |-> 0, errors |-> <<>>, stdout |-> <<>>, stderr |-> <<>>],
      err |-> NewError(<<>>),    \* what the last getError returned
      formatCalled |-> FALSE,    \* getFormattedError was called
      message |-> <<>>,          \* its message
      regex |-> "none",          \* its regex
      formatted |-> <<>> ]       \* what it returned

\* getError of publishToItunesConnect is called with a failed result.
ItunesConnectClassify ==
    /\ kind = "Publish"
    /\ classification.calls < MaxCalls
    /\ \E publishResult \in FailedPublishResults :
         LET e == ItunesConnectGetError(publishResult, PackagePaths,
                                        classification.lastIndex) IN
         classification' = [classification EXCEPT !.calls = @ + 1,
                                                  !.platform = "iOS",
                                                  !.publishResult = publishResult,
                                                  !.err = e.err,
                                                  !.lastIndex = e.lastIndex]
    /\ UNCHANGED <<waitVars, transformedVars, download, operation>>

\* getError of publishToGooglePlay is called with a failed result.
GooglePlayClassify ==
    /\ kind = "Publish"
    /\ classification.calls < MaxCalls
    /\ \E publishResult \in FailedPublishResults :
         classification' = [classification EXCEPT !.calls = @ + 1,
                                                  !.platform = "Android",
                                                  !.publishResult = publishResult,
                                                  !.err = GooglePlayGetError(publishResult)]
    /\ UNCHANGED <<waitVars, transformedVars, download, operation>>

\* getFormattedError is called with a message and one of the two regexes.
FormatError ==
    /\ kind = "Publish"
    /\ ~classification.formatCalled
    /\ \E message \in StringsOf(MessageLines, MaxLines),
          regex \in {ITMS_ERROR_REGEX, GENERAL_ERROR_REGEX} :
         classification' = [classification EXCEPT
                               !.formatCalled = TRUE,
                               !.message = message,
                               !.regex = regex,
                               !.formatted = getFormattedError(message, regex)]
    /\ UNCHANGED <<waitVars, transformedVars, download, operation>>

(***************************************************************************)
(* The operations: publishToItunesConnect, publishToGooglePlay and         *)
(* generateCodesignFiles. The wait of an operation is taken by its         *)
(* outcome: resolved on Success, rejected with failedError on Failed,      *)
(* rejected with failedToStartError when no status object was read.        *)
(***************************************************************************)
OperationNames == {"publishToItunesConnect", "publishToGooglePlay", "generateCodesignFiles"}
PublishNames == {"publishToItunesConnect", "publishToGooglePlay"}

MaxPackages == 2    \* package paths the caller passes

\* The package paths: files that exist locally and a url.
LocalFiles == {"app.ipa", "build/app.apk"}
PackagePathValues == LocalFiles \cup {"https://host/app.ipa"}
PackagePathLists == UNION {[1..n -> PackagePathValues] : n \in 0..MaxPackages}

\* this.$fs.exists(packagePath)
exists(packagePath) == packagePath \in LocalFiles

\* uploadToS3(packagePath, basename(packagePath)): where the file is then.
uploadToS3(packagePath) ==
    CASE packagePath = "app.ipa" -> "https://s3/app.ipa"
      [] packagePath = "build/app.apk" -> "https://s3/app.apk"
      [] OTHER -> "https://s3/"

\* What the caller passes: which of the data are there.
ValidInput ==
    [ hasPackagePaths |-> TRUE,  \* packagePaths is there and not empty
      hasProjectDir |-> TRUE,
      hasCredentials |-> TRUE,   \* credentials with username and password
      hasAuthJson |-> TRUE,      \* pathToAuthJson is given and the file exists
      authJsonParses |-> TRUE,   \* readJson of the file does not throw
      hasCodesignData |-> TRUE,  \* codesignData with username and password
      packagePaths |-> <<"app.ipa">> ]

PublishDataCores ==
    { [ValidInput EXCEPT !.packagePaths = paths, !.hasPackagePaths = (paths /= <<>>),
                         !.hasProjectDir = b] :
        paths \in PackagePathLists, b \in BOOLEAN }
ItunesConnectPublishData ==
    { [d EXCEPT !.hasCredentials = a] : d \in PublishDataCores, a \in BOOLEAN }
GooglePlayPublishData ==
    { [d EXCEPT !.hasAuthJson = a, !.authJsonParses = b] :
        d \in PublishDataCores, a \in BOOLEAN, b \in BOOLEAN }
CodesignData ==
    { [ValidInput EXCEPT !.hasCodesignData = a, !.hasProjectDir = b] :
        a \in BOOLEAN, b \in BOOLEAN }

NoError == "none"

\* validatePublishData: the message of the error, or NoError.
validatePublishData(publishData) ==
    IF ~publishData.hasPackagePaths THEN "Cannot upload without packages"
    ELSE IF ~publishData.hasProjectDir
    THEN "Cannot perform publish - projectDir is required."
    ELSE NoError

\* A publishToItunesConnect that does not look at the credentials.
checkCredentials_Skipped(publishData) == NoError

\* The check of the credentials in publishToItunesConnect.
checkCredentials(publishData) ==
    IF ~publishData.hasCredentials
    THEN "Cannot perform publish - credentials are required."
    ELSE NoError

\* The checks of the auth json file in publishToGooglePlay.
checkAuthJson(publishData) ==
    IF ~publishData.hasAuthJson
    THEN "Cannot perform publish - auth json file is not supplied or missing."
    ELSE IF ~publishData.authJsonParses
    THEN "Cannot perform publish - auth json file is not in JSON format."
    ELSE NoError

\* validateParameteres of the codesign service.
validateParameteres(codesignData) ==
    IF ~codesignData.hasCodesignData
    THEN "Codesign failed. Reason is missing code sign data. Apple Id and Apple Id password are required.."
    ELSE IF ~codesignData.hasProjectDir
    THEN "Codesign failed. Reason is invalid project path."
    ELSE NoError

\* The first error of the checks, in their order.
FirstError(messages) ==
    IF \E i \in 1..Len(messages) : messages[i] /= NoError
    THEN messages[CHOOSE i \in 1..Len(messages) :
                      messages[i] /= NoError /\ \A j \in 1..(i - 1) : messages[j] = NoError]
    ELSE NoError

\* The result objects of the operations.
FORBIDDEN == "403 Forbidden"
SERVICE_UNAVAILABLE ==
    "The Code Signing Assistance service is temporary unavailable. Please try again later."
CodesignErrorsTexts == { <<>>, <<"Command failed">>, <<"Request failed:", FORBIDDEN>> }
CodesignStderr == <<GENERAL_ERROR_REGEX, "Something failed">>
CodesignStdout == <<"Generating">>

NoResult ==
    [code |-> 0, errors |-> <<>>, stdout |-> <<>>, stderr |-> <<>>, buildItems |-> <<>>]
PublishResults ==
    [ code : {0, 1}, errors : ErrorsTexts, stdout : StringsOf(StdoutLines, 1),
      stderr : Stderrs, buildItems : {<<>>} ]
CodesignResults ==
    [ code : {0}, errors : CodesignErrorsTexts, stdout : {CodesignStdout},
      stderr : {CodesignStderr}, buildItems : {items \in BuildItems : Len(items) <= 2} ]

IdleOperation ==
    [ stage |-> "idle",          \* idle, uploading, submitting, waiting, fetching,
                                 \* downloading, resolved, rejected
      name |-> "none",
      input |-> ValidInput,
      contacts |-> <<>>,         \* upload, submit, statusFetch, resultFetch, transfer
      cloudOperationId |-> "none",
      waitOutcome |-> "none",    \* resolved, rejected
      waitError |-> "none",      \* the message the wait rejected with
      terminalStatus |-> "none", \* the status the wait ended on
      hasResult |-> FALSE,
      result |-> NoResult,
      failedIn |-> "none",       \* validation, upload, submit, wait, resultFetch,
                                 \* result, download
      err |-> NewError(<<>>),
      outputFilesPaths |-> <<>>,
      trace |-> <<>>,            \* the stages started and ended, in order
      payloadIds |-> {},         \* the identifiers in the request submitted
      waitId |-> "none",         \* the identifier the wait was called with
      getResult |-> "none",      \* what getResult gave in the catch of the wait
      packagePaths |-> <<>>,     \* publishRequestData.packagePaths
      preparedPackagePaths |-> <<>>,   \* of getPreparePackagePaths
      uploadsEnded |-> 0,        \* uploads that returned or failed
      payloadPackagePaths |-> <<>> ]   \* the packagePaths of the request submitted

\* An operation that submits its request once more when the submit failed.
Reject_SubmitsAgain(op, err, failedIn) ==
    IF failedIn = "submit" /\ Len(SelectSeq(op.contacts, LAMBDA c : c = "submit")) < 2
    THEN [op EXCEPT !.stage = "submitting",
                    !.contacts = Append(@, "submit"),
                    !.trace = Append(@, <<"submitting", "start">>)]
    ELSE [op EXCEPT !.stage = "rejected", !.err = err, !.failedIn = failedIn]

\* The promise of the operation rejects with err.
Reject(op, err, failedIn) ==
    [op EXCEPT !.stage = "rejected", !.err = err, !.failedIn = failedIn]

\* The catch of generateCodesignFiles: the identifier is set on the error.
AttachIds(err) == [err EXCEPT !.hasBuildId = TRUE]

\* What rejects in executeGeneration goes through the catch of generateCodesignFiles.
RejectCodesign(op, err, failedIn) == Reject(op, AttachIds(err), failedIn)

\* A stage of the operation starts; the stage the operation is in ends.
Begin(op, stage) ==
    [op EXCEPT !.stage = stage, !.trace = Append(@, <<stage, "start">>)]
End(op) == [op EXCEPT !.trace = Append(@, <<op.stage, "end">>)]

\* A stage starts with a request to the backend or to the object store.
Contact(op, what, stage) ==
    [Begin(op, stage) EXCEPT !.contacts = Append(@, what)]

\* The submit of a request that holds the identifiers ids.
Submit(op, ids) ==
    [Contact(op, "submit", "submitting") EXCEPT !.payloadIds = ids]

\* The identifiers in publishRequestData: it has appIdentifier, credentials,
\* packagePaths, platform and teamId or track.
PublishRequestIds(op) == {}

\* The identifiers in the request of prepareCodesignRequest.
CodesignRequestIds(op) == {op.cloudOperationId}

\* waitForServerOperationToFinish is called with the identifier.
StartWait(op) ==
    [Contact(op, "statusFetch", "waiting") EXCEPT !.waitId = op.cloudOperationId]

\* publishRequestData as publishToItunesConnect and publishToGooglePlay make
\* it: packagePaths: publishData.packagePaths.
PublishRequestData(op) == [op EXCEPT !.packagePaths = op.input.packagePaths]

\* A publishCore that submits the paths the caller gave.
SubmitPublish_CallersPaths(op) ==
    [Submit(op, PublishRequestIds(op)) EXCEPT !.payloadPackagePaths = op.packagePaths]

\* publishCore from the return of getPreparePackagePaths to the submit: the
\* prepared paths are set on publishRequestData, which is submitted.
SubmitPublish(op) ==
    LET o == [op EXCEPT !.packagePaths = op.preparedPackagePaths] IN
    [Submit(o, PublishRequestIds(o)) EXCEPT !.payloadPackagePaths = o.packagePaths]

\* The for loop of getPreparePackagePaths up to its next await: a path that
\* does not exist is pushed as it is, a file that exists is uploaded; after
\* the loop publishCore goes on to the submit.
RECURSIVE PrepareLoop(_)
PrepareLoop(op) ==
    LET n == Len(op.preparedPackagePaths) IN
    IF n >= Len(op.input.packagePaths)
    THEN SubmitPublish(op)
    ELSE LET packagePath == op.input.packagePaths[n + 1] IN
         IF exists(packagePath)
         THEN Contact(op, "upload", "uploading")
         ELSE PrepareLoop([op EXCEPT !.preparedPackagePaths = Append(@, packagePath)])

\* publishCore up to its first await that takes time.
publishCore(op) == PrepareLoop(op)

\* A test of the result that looks at the code only.
IsToolFailure_CodeOnly(publishResult) == publishResult.code /= 0

\* publishResult.code || publishResult.errors
IsToolFailure(publishResult) == publishResult.code /= 0 \/ publishResult.errors /= <<>>

\* An error text that is always the fixed one.
CodesignErrText_AlwaysFixed(errors) == <<SERVICE_UNAVAILABLE>>

\* errText of executeGeneration
CodesignErrText(errors) ==
    IF includes(errors, <<FORBIDDEN>>) THEN <<SERVICE_UNAVAILABLE>> ELSE errors

\* The error of executeGeneration for a result without build items.
CodesignError(codesignResult) ==
    [NewError(<<"Codesign failed. Reason is: ">> \o CodesignErrText(codesignResult.errors)
              \o <<".">>)
       EXCEPT !.hasStderr = TRUE, !.stderr = codesignResult.stderr]

\* The paths downloadServerResults returns when every transfer succeeds.
DownloadedPaths(k, buildItems, options) ==
    LET selected == getServerResults(k, buildItems)
        destinationDir == getServerOperationOutputDirectory(k, options) IN
    [i \in 1..Len(selected) |-> TargetFileName(destinationDir, selected[i])]

CodesignOutputOptions == [projectDir |-> ProjectDir, platform |-> "iOS", emulator |-> FALSE]

\* An executeGeneration that returns without downloadServerResults.
StartDownload_Skipped(o) == [o EXCEPT !.stage = "resolved"]

\* The call of downloadServerResults in executeGeneration: with no item
\* selected it returns at once, else the first transfer starts.
StartDownload(o) ==
    IF getServerResults("Codesign", o.result.buildItems) = <<>>
    THEN [End(Begin(o, "downloading")) EXCEPT !.stage = "resolved"]
    ELSE Contact(o, "transfer", "downloading")

\* executeGeneration from the codesign result on, up to the next await.
AfterCodesignResult(op, codesignResult) ==
    LET o == [End(Begin(op, "fetching")) EXCEPT !.hasResult = TRUE,
                                                !.result = codesignResult] IN
    IF codesignResult.buildItems = <<>>
    THEN RejectCodesign(o, CodesignError(codesignResult), "result")
    ELSE StartDownload(o)

\* A catch of executeGeneration that throws the error of the wait always.
AfterCodesignWait_AlwaysThrows(op, hasResult, codesignResult) ==
    IF op.waitOutcome = "rejected"
    THEN RejectCodesign(op, NewError(<<op.waitError>>), "wait")
    ELSE AfterCodesignResult(op, codesignResult)

\* executeGeneration after its wait: the result of the wait or, in the catch,
\* the result of getResult; without one the error of the wait is thrown.
AfterCodesignWait(op, hasResult, codesignResult) ==
    IF hasResult
    THEN AfterCodesignResult(op, codesignResult)
    ELSE RejectCodesign(op, NewError(<<op.waitError>>), "wait")

\* A publishCore that throws the error of its wait.
AfterPublishWait_Throws(op) ==
    IF op.waitOutcome = "rejected"
    THEN Reject(op, NewError(<<op.waitError>>), "wait")
    ELSE Contact(op, "resultFetch", "fetching")

\* publishCore after its wait: the catch has traced a rejection, the result
\* object is fetched.
AfterPublishWait(op) == Contact(op, "resultFetch", "fetching")

OtherVarsOfOperation == <<waitVars, transformedVars, download>>

\* The operation as it is called with its data.
Called(name, input) == [operation EXCEPT !.name = name, !.input = input]

\* The call of an operation: the checks, then the work up to the first await.
StartOperation(op, message, started) ==
    /\ operation.stage = "idle"
    /\ operation' = IF message /= NoError
                    THEN Reject(op, NewError(<<message>>), "validation")
                    ELSE started
    /\ UNCHANGED classification
    /\ UNCHANGED OtherVarsOfOperation

publishToItunesConnect ==
    /\ kind = "Publish"
    /\ \E publishData \in ItunesConnectPublishData :
         StartOperation(Called("publishToItunesConnect", publishData),
                        FirstError(<<validatePublishData(publishData),
                                     checkCredentials(publishData)>>),
                        publishCore(PublishRequestData(
                                        Called("publishToItunesConnect", publishData))))

publishToGooglePlay ==
    /\ kind = "Publish"
    /\ \E publishData \in GooglePlayPublishData :
         StartOperation(Called("publishToGooglePlay", publishData),
                        FirstError(<<validatePublishData(publishData),
                                     checkAuthJson(publishData)>>),
                        publishCore(PublishRequestData(
                                        Called("publishToGooglePlay", publishData))))

\* generateCodesignFiles: the checks, the identifier, executeGeneration up to
\* the submit.
generateCodesignFiles ==
    /\ kind = "Codesign"
    /\ \E codesignData \in CodesignData :
         StartOperation(Called("generateCodesignFiles", codesignData),
                        validateParameteres(codesignData),
                        LET op == [Called("generateCodesignFiles", codesignData)
                                      EXCEPT !.cloudOperationId = "uuid"]
                        IN  Submit(op, CodesignRequestIds(op)))

\* uploadToS3 of getPreparePackagePaths returns or fails.
UploadReturn ==
    /\ operation.stage = "uploading"
    /\ \E ok \in BOOLEAN :
         LET op == [End(operation) EXCEPT !.uploadsEnded = @ + 1]
             packagePath == operation.input.packagePaths[
                                Len(operation.preparedPackagePaths) + 1] IN
         operation' = IF ok
                      THEN PrepareLoop([op EXCEPT !.preparedPackagePaths =
                                                     Append(@, uploadToS3(packagePath))])
                      ELSE Reject(op, NewError(<<"upload failed">>), "upload")
    /\ UNCHANGED classification
    /\ UNCHANGED OtherVarsOfOperation

\* The submit returns or fails; after it the wait starts and with it the
\* first fetch of the status object. publishCore makes its identifier here.
SubmitReturn ==
    /\ operation.stage = "submitting"
    /\ \E ok \in BOOLEAN :
         operation' =
            IF ~ok
            THEN IF operation.name \in PublishNames
                 THEN Reject(End(operation), NewError(<<"submit failed">>), "submit")
                 ELSE RejectCodesign(End(operation), NewError(<<"submit failed">>), "submit")
            ELSE StartWait([End(operation) EXCEPT !.cloudOperationId = "uuid"])
    /\ UNCHANGED classification
    /\ UNCHANGED OtherVarsOfOperation

\* How a wait can end: the promise, the status it ended on, its error.
WaitOutcomes(k) ==
    { [promise |-> "resolved", status |-> OPERATION_COMPLETE_STATUS, error |-> "none"],
      [promise |-> "rejected", status |-> OPERATION_FAILED_STATUS, error |-> failedError(k)],
      [promise |-> "rejected", status |-> "none", error |-> failedToStartError(k)] }

\* The wait of publishCore ends: a rejection is traced, the result is fetched.
PublishWaitReturn ==
    /\ operation.stage = "waiting"
    /\ operation.name \in PublishNames
    /\ \E w \in WaitOutcomes(kind) :
         operation' = AfterPublishWait([End(operation) EXCEPT
                                           !.waitOutcome = w.promise,
                                           !.waitError = w.error,
                                           !.terminalStatus = w.status])
    /\ UNCHANGED classification
    /\ UNCHANGED OtherVarsOfOperation

\* The wait of executeGeneration ends: resolved, it gives the result; rejected,
\* getResult gives a result or nothing, and with nothing the error is thrown.
CodesignWaitReturn ==
    /\ operation.stage = "waiting"
    /\ operation.name = "generateCodesignFiles"
    /\ \E w \in WaitOutcomes(kind), hasResult \in BOOLEAN, codesignResult \in CodesignResults :
         LET op == [End(operation) EXCEPT
                       !.waitOutcome = w.promise,
                       !.waitError = w.error,
                       !.terminalStatus = w.status,
                       !.getResult = IF w.promise = "resolved" THEN "none"
                                     ELSE IF hasResult THEN "found" ELSE "absent"] IN
         /\ w.promise = "resolved" => hasResult
         /\ ~hasResult => codesignResult.buildItems = <<>> /\ codesignResult.errors = <<>>
         /\ operation' = AfterCodesignWait(op, hasResult, codesignResult)
    /\ UNCHANGED classification
    /\ UNCHANGED OtherVarsOfOperation

\* The fetch of the publish result returns or fails; publishCore ends.
ResultFetchReturn ==
    /\ operation.stage = "fetching"
    /\ \/ /\ operation' = Reject(End(operation), NewError(<<"fetch failed">>),
                                  "resultFetch")
          /\ UNCHANGED classification
       \/ \E publishResult \in PublishResults :
            LET op == [End(operation) EXCEPT !.hasResult = TRUE, !.result = publishResult]
                e == IF operation.name = "publishToItunesConnect"
                     THEN ItunesConnectGetError(publishResult, operation.packagePaths,
                                                classification.lastIndex)
                     ELSE [err |-> GooglePlayGetError(publishResult),
                           lastIndex |-> classification.lastIndex] IN
            IF IsToolFailure(publishResult)
            THEN /\ operation' = Reject(op, [e.err EXCEPT !.hasStderr = TRUE,
                                                          !.stderr = publishResult.stderr,
                                                          !.hasStdout = TRUE,
                                                          !.stdout = publishResult.stdout],
                                        "result")
                 /\ classification' = [classification EXCEPT !.lastIndex = e.lastIndex]
            ELSE /\ operation' = [op EXCEPT !.stage = "resolved"]
                 /\ UNCHANGED classification
    /\ UNCHANGED OtherVarsOfOperation

\* downloadServerResults of executeGeneration returns or fails.
CodesignDownloadReturn ==
    /\ operation.stage = "downloading"
    /\ \E ok \in BOOLEAN :
         operation' =
            IF ok
            THEN [End(operation) EXCEPT
                     !.stage = "resolved",
                     !.outputFilesPaths = DownloadedPaths("Codesign",
                                                          operation.result.buildItems,
                                                          CodesignOutputOptions)]
            ELSE RejectCodesign(End(operation), NewError(<<"transfer failed">>),
                                "download")
    /\ UNCHANGED classification
    /\ UNCHANGED OtherVarsOfOperation

(***************************************************************************)
(* Specification of the waits.                                             *)
(***************************************************************************)
Init ==
    /\ kind \in Kinds
    /\ outputCursorPosition = UndefinedCursor
    /\ waits = [w \in Waits |-> IdleWait]
    /\ statusObject = [w \in Waits |-> "absent"]
    /\ logLength = [w \in Waits |-> 0]
    /\ delivered = [w \in Waits |-> <<>>]
    /\ transformed = IdleTransformed
    /\ transformedObject = "absent"
    /\ download = IdleDownload
    /\ operation = IdleOperation
    /\ classification = IdleClassification

\* Spec: one wait on the service instance, in any environment.
Next ==
    \/ waitForServerOperationToFinish(FirstWait)
    \/ FirstStatusAttempt(FirstWait)
    \/ IntervalTick(FirstWait)
    \/ \E st \in LoggedStatuses : ServerLogsReturn(FirstWait, st)
    \/ \E st \in LoggedStatuses : ServerLogsFail(FirstWait, st)
    \/ StatusFetchReturn(FirstWait)
    \/ BackendWriteStatus(FirstWait)
    \/ BackendAppendLog(FirstWait)

Spec == Init /\ [][Next]_vars

\* SpecFair: one wait in any environment, the timer firing again and again
\* and every request that is tried again and again succeeding in the end.
NextFair ==
    \/ waitForServerOperationToFinish(FirstWait)
    \/ FirstStatusAttempt(FirstWait)
    \/ IntervalTickFair(FirstWait)
    \/ \E st \in LoggedStatuses : ServerLogsReturn(FirstWait, st)
    \/ \E st \in LoggedStatuses : ServerLogsFail(FirstWait, st)
    \/ \E o \in Statuses \cup {"networkError", "malformedJSON"} :
          StatusFetchReturnFair(FirstWait, o)
    \/ BackendWriteStatus(FirstWait)
    \/ BackendAppendLog(FirstWait)

\* setInterval fires its callback every 1500 ms while it is not cleared and
\* promise-retry makes its next attempt after its timeout (weak fairness);
\* a request that is made again and again succeeds in the end (strong
\* fairness of the returns without error).
FairWait ==
    /\ WF_vars(waitForServerOperationToFinish(FirstWait))
    /\ WF_vars(FirstStatusAttempt(FirstWait))
    /\ WF_vars(IntervalTickFair(FirstWait))
    /\ \A st \in LoggedStatuses : SF_vars(ServerLogsReturn(FirstWait, st))
    /\ \A o \in Statuses : SF_vars(StatusFetchReturnFair(FirstWait, o))

SpecFair == Init /\ [][NextFair]_vars /\ FairWait

\* SpecTwo: two waits in flight on the service instance, in an environment
\* where no request fails, every callback ends before the next tick and the
\* status of an operation goes from in progress to Success or Failed.
IsProgress(old, new) ==
    /\ old \in {"absent", OPERATION_IN_PROGRESS_STATUS}
    /\ new \in LoggedStatuses

NextTwo ==
    \E w \in Waits :
        \/ waitForServerOperationToFinish(w)
        \/ FirstStatusAttempt(w) /\ waits'[w].stage = "polling"
        \/ IntervalTick(w) /\ InFlight(waits[w]) = 0
        \/ \E st \in LoggedStatuses : ServerLogsReturn(w, st)
        \/ StatusFetchReturn(w) /\ ~waits'[w].fetchFailed
        \/ BackendWriteStatus(w) /\ IsProgress(statusObject[w], statusObject'[w])
        \/ BackendAppendLog(w)

SpecTwo == Init /\ [][NextTwo]_vars

\* SpecTransformed: one call of getTransformedServerResult.
NextTransformed ==
    \/ getTransformedServerResult
    \/ TransformedTick
    \/ TransformedFetchReturn
    \/ BackendWriteTransformed

SpecTransformed == Init /\ [][NextTransformed]_vars

\* SpecDownload: one call of downloadServerResults.
NextDownload ==
    \/ downloadServerResults
    \/ TransferDone
    \/ TransferFail

SpecDownload == Init /\ [][NextDownload]_vars

\* SpecClassify: calls of getError on one publish service instance.
NextClassify ==
    \/ ItunesConnectClassify
    \/ GooglePlayClassify

SpecClassify == Init /\ [][NextClassify]_vars

\* SpecFormat: one call of getFormattedError.
NextFormat == FormatError

SpecFormat == Init /\ [][NextFormat]_vars

\* SpecOperation: one publish or codesign operation of the service.
NextOperation ==
    \/ publishToItunesConnect
    \/ publishToGooglePlay
    \/ generateCodesignFiles
    \/ UploadReturn
    \/ SubmitReturn
    \/ PublishWaitReturn
    \/ CodesignWaitReturn
    \/ ResultFetchReturn
    \/ CodesignDownloadReturn

SpecOperation == Init /\ [][NextOperation]_vars

(***************************************************************************)
(* Properties of waitForServerOperationToFinish.                           *)
(***************************************************************************)
Settled(r) == r.promise \in {"resolved", "rejected"}

\* seq is in progress any number of times, then final.
IsInProgressThen(seq, final) ==
    /\ Len(seq) >= 1
    /\ seq[Len(seq)] = final
    /\ \A i \in 1..(Len(seq) - 1) : seq[i] = OPERATION_IN_PROGRESS_STATUS

\* A getServerLogs call was made on status st, and no call on st is still awaited.
LogsReturnedOn(r, st) ==
    /\ \E i \in 1..Len(r.logSeq) : r.logSeq[i].status = st
    /\ r.awaitingLogs[st] = 0
    /\ ~r.logFailed

\* C1 as stated, in the case most favourable to it (no callback overlapped
\* another, no call failed): when the status objects read are InProgress* then
\* Success and the wait has resolved, getServerLogs was called exactly once per
\* status object, and each call saw a strictly larger cursor than the call
\* before.
C1_StrictlyLargerCursor ==
    \A w \in Waits :
        LET r == waits[w] IN
        (/\ r.promise = "resolved"
         /\ IsInProgressThen(r.statusSeq, OPERATION_COMPLETE_STATUS)
         /\ ~r.overlapped /\ ~r.logFailed /\ ~r.fetchFailed)
        => /\ Len(r.logSeq) = Len(r.statusSeq)
           /\ \A i \in 1..(Len(r.logSeq) - 1) : r.logSeq[i].cursor < r.logSeq[i + 1].cursor

\* C1 amended: when the status objects read are InProgress* then Success, the
\* wait does not reject and is resolved once the getServerLogs call of the
\* Success check has returned; getServerLogs is then called at least once per
\* status object, and exactly once per status object when no callback
\* overlapped another and no call of a callback failed; the cursor the calls
\* see is not strictly larger: for Publish and Codesign every call sees 0.
C1_ResolvesWithLogsPerStatus ==
    \A w \in Waits :
        LET r == waits[w] IN
        IsInProgressThen(r.statusSeq, OPERATION_COMPLETE_STATUS)
        => /\ r.promise /= "rejected"
           /\ LogsReturnedOn(r, OPERATION_COMPLETE_STATUS) => r.promise = "resolved"
           /\ r.promise = "resolved" =>
                /\ Len(r.logSeq) >= Len(r.statusSeq)
                /\ (~r.overlapped /\ ~r.logFailed /\ ~r.fetchFailed)
                      => Len(r.logSeq) = Len(r.statusSeq)
                /\ HasNoServerLogs(kind)
                      => \A i \in 1..Len(r.logSeq) : r.logSeq[i].cursor = 0

\* C1 witness: a wait that read in progress, then Success, and resolved after
\* one getServerLogs call per status object.
C1_Witness ==
    \E w \in Waits :
        /\ waits[w].promise = "resolved"
        /\ IsInProgressThen(waits[w].statusSeq, OPERATION_COMPLETE_STATUS)
        /\ Len(waits[w].statusSeq) >= 3
        /\ Len(waits[w].logSeq) = Len(waits[w].statusSeq)

\* C2: when the status objects read are InProgress* then Failed, the wait does
\* not resolve; it rejects with failedError of the specialization, a
\* getServerLogs call on the Failed status was made by then, and the wait has
\* rejected once that call has returned.
C2_RejectsWithFailedError ==
    \A w \in Waits :
        LET r == waits[w] IN
        IsInProgressThen(r.statusSeq, OPERATION_FAILED_STATUS)
        => /\ r.promise /= "resolved"
           /\ LogsReturnedOn(r, OPERATION_FAILED_STATUS) => r.promise = "rejected"
           /\ r.promise = "rejected" =>
                /\ r.error = failedError(kind)
                /\ \E i \in 1..Len(r.logSeq) : r.logSeq[i].status = OPERATION_FAILED_STATUS

\* C2 witness: a wait that read in progress, then Failed, and has rejected.
C2_Witness ==
    \E w \in Waits :
        /\ waits[w].promise = "rejected"
        /\ IsInProgressThen(waits[w].statusSeq, OPERATION_FAILED_STATUS)
        /\ Len(waits[w].statusSeq) >= 2

\* C3: while every attempt of the first status fetch has failed, whatever the
\* cause, no timer is set, no callback has run, no status object was read and
\* getServerLogs was not called; when no attempt is left, the wait is rejected
\* with failedToStartError of the specialization.
C3_FailedToStartWithoutPolling ==
    \A w \in Waits :
        LET r == waits[w] IN
        /\ r.stage \in {"retrying", "notStarted"}
             => /\ ~r.interval /\ r.ticks = 0 /\ InFlight(r) = 0
                /\ r.statusSeq = <<>> /\ r.logSeq = <<>>
        /\ r.stage = "notStarted"
             => r.promise = "rejected" /\ r.error = failedToStartError(kind)
        /\ (r.promise = "rejected" /\ r.error = failedToStartError(kind))
             => r.stage = "notStarted"

\* C3 witness: a wait rejected after failures of both causes.
C3_Witness ==
    \E w \in Waits :
        /\ waits[w].stage = "notStarted"
        /\ waits[w].promise = "rejected"
        /\ waits[w].causes = {"networkError", "malformedJSON"}

\* C4 as stated: the first status fetch is attempted at most 8 times.
C4_AtMostEightAttempts ==
    \A w \in Waits : waits[w].attempts <= 8

\* C4 amended: the first status fetch is attempted at most 9 times (one
\* attempt and OPERATION_STATUS_CHECK_RETRY_COUNT retries); the wait fails
\* with failedToStartError exactly when the 9th attempt has failed, and no
\* attempt is made after that.
C4_AtMostRetryCountPlusOneAttempts ==
    \A w \in Waits :
        LET r == waits[w] IN
        /\ r.attempts <= OPERATION_STATUS_CHECK_RETRY_COUNT + 1
        /\ r.stage = "notStarted" => r.attempts = OPERATION_STATUS_CHECK_RETRY_COUNT + 1
        /\ r.stage = "retrying" => r.attempts <= OPERATION_STATUS_CHECK_RETRY_COUNT

\* C4 witness: a wait that failed to start after its 9th attempt.
C4_Witness ==
    \E w \in Waits :
        /\ waits[w].stage = "notStarted"
        /\ waits[w].attempts = 9
        /\ waits[w].error = failedToStartError(kind)

\* C5: once the promise of a wait is resolved or rejected, its outcome and its
\* error never change, whatever the callbacks still running do.
C5_OneTerminalTransition ==
    [][\A w \in Waits :
          Settled(waits[w]) => /\ waits'[w].promise = waits[w].promise
                               /\ waits'[w].error = waits[w].error]_vars

\* C5 witness: a resolved wait on which a callback later called reject.
C5_Witness ==
    \E w \in Waits :
        /\ waits[w].promise = "resolved"
        /\ "rejected" \in waits[w].ignored

\* C6 as stated: the timer is cleared on every exit path of the polling loop:
\* when the wait has settled on Success or Failed, and when a getServerLogs
\* call of a check has failed.
C6_TimerClearedOnEveryExit ==
    \A w \in Waits :
        LET r == waits[w] IN
        /\ Settled(r) => ~r.interval
        /\ r.logFailed => ~r.interval

\* C7 as stated: within one wait the cursor that the getServerLogs calls see
\* never decreases, and no position of the log is delivered twice.
C7_CursorNeverRegresses ==
    \A w \in Waits :
        LET r == waits[w] IN
        /\ \A i \in 1..(Len(r.logSeq) - 1) : r.logSeq[i].cursor <= r.logSeq[i + 1].cursor
        /\ \A i, j \in 1..Len(delivered[w]) :
              i /= j => delivered[w][i] /= delivered[w][j]

\* C8 as stated: a step of one wait (its start, its reset of the cursor, its
\* checks) never changes the cursor that another wait in flight sees.
C8_WaitsShareNoCursor ==
    [][\A w, v \in Waits :
          (/\ w /= v
           /\ waits[w].stage = "polling" /\ waits[w].promise = "pending"
           /\ waits'[w] = waits[w]
           /\ waits'[v] /= waits[v])
          => outputCursorPosition' = outputCursorPosition]_vars

(***************************************************************************)
(* Properties of getTransformedServerResult.                               *)
(***************************************************************************)
IsObject(x) == x \in TransformedResults

\* C9 as stated: the promise never rejects; it resolves with null when every
\* attempt fails and with the fetched object when some attempt succeeds.
C9_ResolvesWithAnyFetchedObject ==
    /\ transformed.promise /= "rejected"
    /\ transformed.promise = "resolved" =>
         IF \E i \in 1..Len(transformed.results) : IsObject(transformed.results[i])
         THEN IsObject(transformed.value)
         ELSE transformed.value = "null"

\* C9 amended: the promise never rejects, and a failed attempt is never handed
\* to the caller; it resolves with null when every attempt that ended before
\* the 7th tick failed, and with the fetched object of the first attempt to
\* succeed when that attempt ends before the 7th tick; an attempt that succeeds
\* after the promise has resolved is ignored.
C9_NeverRejects ==
    LET t == transformed IN
    /\ t.promise /= "rejected"
    /\ t.promise = "pending" => \A i \in 1..Len(t.results) : ~IsObject(t.results[i])
    /\ t.promise = "resolved" =>
         /\ \A i \in 1..Len(t.results) :
               (i < t.settledAfter \/ (i = t.settledAfter /\ t.value = "null"))
               => ~IsObject(t.results[i])
         /\ t.value /= "null"
               => /\ t.settledAfter >= 1
                  /\ IsObject(t.value)
                  /\ t.results[t.settledAfter] = t.value
         /\ t.value = "null" => t.started = GET_TRANSFORMED_RESULT_RETRIES_COUNT

\* C9 witness: every attempt has failed and the promise is resolved with null.
C9_Witness ==
    /\ transformed.promise = "resolved"
    /\ transformed.value = "null"
    /\ Len(transformed.results) = GET_TRANSFORMED_RESULT_RETRIES_COUNT
    /\ \A i \in 1..Len(transformed.results) : transformed.results[i] = "failed"

\* C10: one call starts at most 6 fetch attempts, also when attempts overlap;
\* it has started exactly 6 when it resolves with null; and it starts no
\* attempt once the promise is resolved.
C10_AtMostSixAttempts ==
    /\ [](/\ transformed.started <= GET_TRANSFORMED_RESULT_RETRIES_COUNT
          /\ (transformed.promise = "resolved" /\ transformed.value = "null")
                => transformed.started = GET_TRANSFORMED_RESULT_RETRIES_COUNT)
    /\ [][transformed.promise = "resolved"
             => transformed'.started = transformed.started]_vars

\* C10 witness: the promise resolved with null after 6 attempts, some of them
\* still running.
C10_Witness ==
    /\ transformed.promise = "resolved"
    /\ transformed.value = "null"
    /\ transformed.started = 6
    /\ transformed.awaiting >= 2

(***************************************************************************)
(* Properties of downloadServerResults.                                    *)
(***************************************************************************)
\* The paths of the local files.
FilePaths(files) == {f.path : f \in files}

HasDistinctFilenames(items) ==
    \A i, j \in 1..Len(items) : items[i].filename = items[j].filename => i = j

C12_FailsWithoutRollback ==
    /\ [](download.stage = "failed" =>
            LET k == Len(download.requests)
                selected == getServerResults(kind, download.buildItems) IN
            /\ download.returned = <<>>
            /\ k \in 1..Len(selected)
            /\ download.requests = [i \in 1..k |-> selected[i].fullPath]
            /\ Len(download.streams) = k
            /\ \A i \in 1..(k - 1) :
                   /\ download.targetFileNames[i] \in FilePaths(download.files)
                   /\ (\A j \in (i + 1)..k :
                          download.targetFileNames[j] /= download.targetFileNames[i])
                      => [path |-> download.targetFileNames[i],
                          content |-> selected[i].fullPath] \in download.files)
    /\ [][download.stage = "failed" => download' = download]_vars

\* The second of three selected artifacts failed after the first was written.
C12_Witness ==
    /\ download.stage = "failed"
    /\ Len(download.serverResultObjs) = 3
    /\ Len(download.requests) = 2
    /\ [path |-> download.targetFileNames[1],
        content |-> download.serverResultObjs[1].fullPath] \in download.files

(***************************************************************************)
(* Properties of the operations.                                           *)
(***************************************************************************)
\* The data of the call miss something the operation requires.
IsInvalidInput(name, input) ==
    IF name = "publishToItunesConnect"
    THEN ~input.hasPackagePaths \/ ~input.hasProjectDir \/ ~input.hasCredentials
    ELSE IF name = "publishToGooglePlay"
    THEN \/ ~input.hasPackagePaths \/ ~input.hasProjectDir
         \/ ~input.hasAuthJson \/ ~input.authJsonParses
    ELSE ~input.hasCodesignData \/ ~input.hasProjectDir

\* C13: an operation called with data that miss the package paths, the
\* project directory, the credentials, the auth json file (missing or not
\* JSON) or the codesign user and password is rejected by its checks, and
\* no upload, submit, status fetch, result fetch or transfer was or is made.
C13_ValidationBeforeAnyContact ==
    (operation.name \in OperationNames /\ IsInvalidInput(operation.name, operation.input))
    => /\ operation.stage = "rejected"
       /\ operation.failedIn = "validation"
       /\ operation.contacts = <<>>

\* publishToGooglePlay with an auth json file that is not JSON.
C13_Witness ==
    /\ operation.name = "publishToGooglePlay"
    /\ operation.input.hasPackagePaths /\ operation.input.hasProjectDir
    /\ operation.input.hasAuthJson /\ ~operation.input.authJsonParses
    /\ operation.stage = "rejected"
    /\ operation.contacts = <<>>

\* C14: an operation that was rejected by a failure of its wait or of its
\* result stage has the operation's identifier on its error.
C14_FailureCarriesOperationId ==
    (/\ operation.stage = "rejected"
     /\ operation.failedIn \in {"wait", "resultFetch", "result"})
    => operation.err.hasBuildId

\* C15: an operation whose wait ended on the status Failed does not resolve.
C15_FailedStatusFailsOperation ==
    operation.terminalStatus = OPERATION_FAILED_STATUS => operation.stage /= "resolved"

\* C16: a publish operation that has fetched a result with a code other than
\* 0 or with errors is rejected, whatever the status of the wait was, and the
\* error has the stdout and the stderr of the result.
C16_ToolFailureRejectsWithOutput ==
    (/\ operation.name \in PublishNames
     /\ operation.hasResult
     /\ operation.result.code /= 0 \/ operation.result.errors /= <<>>)
    => /\ operation.stage = "rejected"
       /\ operation.err.hasStderr /\ operation.err.stderr = operation.result.stderr
       /\ operation.err.hasStdout /\ operation.err.stdout = operation.result.stdout

\* The wait resolved on Success, the result has code 0 and errors.
C16_Witness ==
    /\ operation.name = "publishToItunesConnect"
    /\ operation.terminalStatus = OPERATION_COMPLETE_STATUS
    /\ operation.hasResult
    /\ operation.result.code = 0 /\ operation.result.errors /= <<>>
    /\ operation.stage = "rejected"
    /\ operation.err.hasStdout /\ operation.err.stdout /= <<>>

FailedOnResultErrors ==
    /\ operation.stage = "rejected"
    /\ operation.failedIn = "result"
    /\ operation.result.errors /= <<>>

\* C17 as stated: the message of an operation that failed on a result with
\* errors holds the errors text.
C17_MessageContainsRawErrors ==
    FailedOnResultErrors => includes(operation.err.message, operation.result.errors)

\* C17 amended: the message holds the errors text, except for a codesign
\* result whose errors hold "403 Forbidden": its message is the fixed text
\* that the service is unavailable, without the errors text.
C17_MessageContainsRawErrorsUnlessForbidden ==
    FailedOnResultErrors =>
        IF /\ operation.name = "generateCodesignFiles"
           /\ includes(operation.result.errors, <<FORBIDDEN>>)
        THEN /\ operation.err.message =
                    <<"Codesign failed. Reason is: ", SERVICE_UNAVAILABLE, ".">>
             /\ ~includes(operation.err.message, operation.result.errors)
        ELSE includes(operation.err.message, operation.result.errors)

\* A codesign result with other errors: the message holds them.
C17_Witness ==
    /\ operation.name = "generateCodesignFiles"
    /\ FailedOnResultErrors
    /\ operation.result.errors = <<"Command failed">>
    /\ operation.err.message = <<"Codesign failed. Reason is: ", "Command failed", ".">>

\* C20: generateCodesignFiles that resolved returns in outputFilesPaths at
\* least one path, each the path of a certificate or provision item.
C20_ResolvedWithCodesignFiles ==
    (operation.name = "generateCodesignFiles" /\ operation.stage = "resolved")
    => /\ Len(operation.outputFilesPaths) >= 1
       /\ \A i \in 1..Len(operation.outputFilesPaths) :
              \E j \in 1..Len(operation.result.buildItems) :
                  /\ IsCodesignItem(operation.result.buildItems[j])
                  /\ operation.outputFilesPaths[i] =
                         <<ProjectDir, CODESIGN_FILES_DIR_NAME, "ios",
                           operation.result.buildItems[j].filename>>

(***************************************************************************)
(* Properties of the error classification of CloudPublishService.          *)
(***************************************************************************)
\* The lines of a string; the empty string has none.
SplitLines(string) ==
    IF string = <<>> THEN <<>>
    ELSE AtPositions([i \in 1..Len(string) |-> SubSeq(string, i, LineEnd(string, i))],
                     {i \in 1..Len(string) : i = 1 \/ string[i - 1] = EOL})

IsTeamLine(line) ==
    \E number \in TeamNumbers, name \in TeamNames, id \in TeamIds :
        line = TeamLine(number, name, id)

TeamNameOf(line) == CHOOSE name \in TeamNames : line[2] = Quoted(name)

\* C18: after getError of publishToItunesConnect for a result whose stderr
\* holds the multi-team marker, teamNames of the error is the list of the
\* names of the team lines of stdout, in their order and with nothing else;
\* this holds for the first call and for every later call on the instance.
C18_TeamNamesInOrder ==
    (/\ classification.platform = "iOS"
     /\ includes(classification.publishResult.stderr,
                 <<FASTLANE_MULTIPLE_TEAMS_FOUND_ERROR>>))
    => LET teamLines == SelectSeq(SplitLines(classification.publishResult.stdout),
                                  IsTeamLine) IN
       /\ classification.err.hasTeamNames
       /\ classification.err.teamNames =
              [k \in 1..Len(teamLines) |-> TeamNameOf(teamLines[k])]

\* A repeated classification: Team A, another line, Team B.
C18_Witness ==
    /\ classification.calls >= 2
    /\ classification.platform = "iOS"
    /\ Len(SplitLines(classification.publishResult.stdout)) = 3
    /\ classification.err.hasTeamNames
    /\ classification.err.teamNames = <<"Team A", "Team B">>

HasMarker(line, regex) == \E i \in 1..Len(line) : line[i] = regex

\* The text of a line from its first marker to its end.
MatchedText(line, regex) ==
    LET i == CHOOSE i \in 1..Len(line) :
                 line[i] = regex /\ \A j \in 1..(i - 1) : line[j] /= regex
    IN SubSeq(line, i, Len(line))

MatchingLines(string, regex) ==
    SelectSeq(SplitLines(string), LAMBDA line : HasMarker(line, regex))

FormattedEntries == SplitLines(classification.formatted)

\* C19 as stated: the formatted message has one entry per distinct matching
\* line of the message.
C19_EachDistinctMatchingLineOnce ==
    classification.formatCalled =>
        LET lines == MatchingLines(classification.message, classification.regex) IN
        Len(FormattedEntries) = Cardinality({lines[i] : i \in 1..Len(lines)})

\* C19 amended: the formatted message lists each distinct matched text (the
\* part of a matching line from the marker to the end of the line) exactly
\* once, in the order of the first occurrences, also when the duplicates are
\* not consecutive.
C19_EachDistinctMatchedTextOnce ==
    classification.formatCalled =>
        LET lines == MatchingLines(classification.message, classification.regex)
            texts == [i \in 1..Len(lines) |-> MatchedText(lines[i], classification.regex)]
            first(t) == CHOOSE i \in 1..Len(texts) :
                            texts[i] = t /\ \A j \in 1..(i - 1) : texts[j] /= t
            entries == FormattedEntries IN
        /\ {entries[k] : k \in 1..Len(entries)} = {texts[i] : i \in 1..Len(texts)}
        /\ \A k, h \in 1..Len(entries) : entries[k] = entries[h] => k = h
        /\ \A k, h \in 1..Len(entries) : k < h => first(entries[k]) < first(entries[h])

\* One line three times, not consecutively, and once in the formatted message.
C19_Witness ==
    /\ classification.formatCalled
    /\ classification.regex = GENERAL_ERROR_REGEX
    /\ LET lines == SplitLines(classification.message) IN
       /\ Len(lines) = 5
       /\ lines[1] = <<GENERAL_ERROR_REGEX, "Something failed">>
       /\ lines[3] = lines[1] /\ lines[5] = lines[1]
       /\ lines[2] = <<GENERAL_ERROR_REGEX, "Other failure">>
       /\ lines[4] = lines[2]
    /\ FormattedEntries = << <<GENERAL_ERROR_REGEX, "Something failed">>,
                             <<GENERAL_ERROR_REGEX, "Other failure">> >>

\* ---------------------------------------------------------------------------
\* Stages of one invocation

\* The start and the end of each stage of stages, in order.
StageEvents(stages) ==
    [i \in 1..(2 * Len(stages)) |->
        <<stages[(i + 1) \div 2], IF i % 2 = 1 THEN "start" ELSE "end">>]

IsPrefix(s, t) == Len(s) <= Len(t) /\ \A i \in 1..Len(s) : s[i] = t[i]

AllFourStages == <<"submitting", "waiting", "fetching", "downloading">>

\* The stages the code of a specialization goes through: publishCore ends
\* with the result retrieval, executeGeneration with downloadServerResults.
StagesOf(name) ==
    IF name \in PublishNames THEN SubSeq(AllFourStages, 1, 3) ELSE AllFourStages

\* The stages of the operation after the upload of a local package.
StagesAfterUpload ==
    SelectSeq(operation.trace, LAMBDA e : e[1] /= "uploading")

\* C21 as stated: one invocation runs submit, wait, result retrieval and
\* Result Downloader in this order, no stage starts before the previous one
\* has ended, and a successful invocation has gone through all four.
C21_AllFourStages ==
    /\ IsPrefix(StagesAfterUpload, StageEvents(AllFourStages))
    /\ operation.stage = "resolved" => StagesAfterUpload = StageEvents(AllFourStages)

\* C21 amended: one invocation runs submit, wait and result retrieval in this
\* order, followed for Codesign only by the Result Downloader; no stage
\* starts before the previous one has ended; a successful Codesign invocation
\* has gone through all four stages and a successful Publish invocation
\* through the first three.
C21_StagesInOrder ==
    /\ IsPrefix(StagesAfterUpload, StageEvents(StagesOf(operation.name)))
    /\ operation.stage = "resolved" =>
         StagesAfterUpload = StageEvents(StagesOf(operation.name))

\* A Codesign invocation succeeded after a transfer of the downloader.
C21_Witness ==
    /\ operation.stage = "resolved"
    /\ operation.name = "generateCodesignFiles"
    /\ \E i \in 1..Len(operation.contacts) : operation.contacts[i] = "transfer"
    /\ Len(operation.trace) = 8

\* C22: the request submitted to the backend contains the operation
\* identifier generated for the invocation, and the wait is run with that
\* same identifier.
C22_PayloadHoldsWaitIdentifier ==
    /\ operation.waitId /= "none" => operation.waitId \in operation.payloadIds
    /\ (\E i \in 1..Len(operation.contacts) : operation.contacts[i] = "submit")
         => operation.payloadIds /= {}

\* The number of requests of the kind what the operation has made.
ContactsOf(what) ==
    Cardinality({i \in 1..Len(operation.contacts) : operation.contacts[i] = what})

\* C26: within one operation the result object is fetched once at most, and
\* only when the wait has ended with a terminal status (Success or Failed)
\* observed; a publish that ended well has fetched it once.
C26_ResultFetchedOnceAfterTerminalStatus ==
    /\ ContactsOf("resultFetch") <= 1
    /\ ContactsOf("resultFetch") = 1 =>
         /\ operation.waitOutcome /= "none"
         /\ operation.terminalStatus \in {OPERATION_COMPLETE_STATUS, OPERATION_FAILED_STATUS}
    /\ (operation.stage = "resolved" /\ operation.name \in PublishNames) =>
         ContactsOf("resultFetch") = 1

\* C27: in generateCodesignFiles, after a wait that failed, the operation is
\* rejected with the error of the wait exactly when no locally kept result
\* exists; with such a result it goes on to the item check and the download.
C27_WaitErrorOnlyWithoutLocalResult ==
    (/\ operation.name = "generateCodesignFiles"
     /\ operation.waitOutcome = "rejected")
    => IF operation.getResult = "found"
       THEN /\ operation.hasResult
            /\ operation.failedIn \notin {"wait"}
            /\ operation.stage \in {"downloading", "resolved", "rejected"}
            /\ operation.stage = "rejected" =>
                 /\ operation.failedIn \in {"result", "download"}
                 /\ operation.failedIn = "result" <=> operation.result.buildItems = <<>>
       ELSE /\ operation.getResult = "absent"
            /\ ~operation.hasResult
            /\ operation.stage = "rejected"
            /\ operation.failedIn = "wait"
            /\ operation.err.message = <<operation.waitError>>
            /\ ContactsOf("transfer") = 0

\* The wait of a codesign failed, a local result with items exists and the
\* operation is downloading them.
C27_Witness ==
    /\ operation.name = "generateCodesignFiles"
    /\ operation.waitOutcome = "rejected"
    /\ operation.getResult = "found"
    /\ operation.stage = "downloading"

\* C30: every error an operation is rejected with, a validation error raised
\* before the submit and a download error included, has the operation
\* identifier attached.
C30_EveryErrorCarriesOperationId ==
    \A failedIn \in {"validation", "upload", "submit", "wait", "resultFetch",
                     "result", "download"} :
        (operation.stage = "rejected" /\ operation.failedIn = failedIn)
        => operation.err.hasBuildId

\* The transfers of the downloader that have started and not ended.
TransfersInFlight == Len(download.requests) - download.ended

\* C28: downloadServerResults has one transfer in flight at most: while it
\* awaits a transfer exactly that one is in flight and every transfer started
\* before it has ended; it returns when the transfers of all the selected
\* items have ended.
C28_OneTransferInFlight ==
    /\ TransfersInFlight \in {0, 1}
    /\ TransfersInFlight = 1 <=> download.stage = "transferring"
    /\ download.stage = "returned" => download.ended = Len(download.serverResultObjs)
    /\ Len(download.requests) <= Len(download.serverResultObjs)

\* The transfer of a second item is in flight after the first has completed.
C28_Witness ==
    /\ download.stage = "transferring"
    /\ Len(download.requests) >= 2
    /\ download.ended = Len(download.requests) - 1

\* The earliest time in ms after the call at which the timer of
\* getTransformedServerResult has fired ticks times.
TransformedElapsed ==
    transformed.ticks * GET_TRANSFORMED_RESULT_REQUEST_INTERVAL

\* C29: when no fetch succeeds, getTransformedServerResult has resolved with
\* the absent value when 3000 ms (6 intervals of 500 ms) have passed since
\* the call, fetches that never complete included.
C29_AbsentWithinBudget ==
    /\ (transformed.promise = "resolved" /\ transformed.value = "null")
         => TransformedElapsed <= GET_TRANSFORMED_RESULT_MAX_WAIT
    /\ (transformed.promise = "pending"
        /\ TransformedElapsed >= GET_TRANSFORMED_RESULT_MAX_WAIT)
         => \E i \in 1..Len(transformed.results) : transformed.results[i] /= "failed"

(***************************************************************************)
(* Properties of the polling of waitForServerOperationToFinish.            *)
(***************************************************************************)
\* C23: within one wait one timer callback at most is in progress (at its
\* await of getServerLogs or of the status fetch) at any time.
C23_AtMostOneCheckInProgress == InFlight(waits[FirstWait]) <= 1

HasRead(r, st) == \E i \in 1..Len(r.statusSeq) : r.statusSeq[i] = st

\* C24: the wait has resolved only if a Success status object was read and
\* has rejected with failedError only if a Failed status object was read;
\* while every status object read is in progress the wait is pending and its
\* timer is set, however many callbacks have started.
C24_SettlesOnlyOnTerminalStatus ==
    LET r == waits[FirstWait] IN
    /\ r.promise = "resolved" => HasRead(r, OPERATION_COMPLETE_STATUS)
    /\ (r.promise = "rejected" /\ r.error = failedError(kind))
         => HasRead(r, OPERATION_FAILED_STATUS)
    /\ (/\ r.stage = "polling"
        /\ \A i \in 1..Len(r.statusSeq) : r.statusSeq[i] = OPERATION_IN_PROGRESS_STATUS)
         => r.promise = "pending" /\ r.interval

\* Three status objects in progress were read, every callback the bound
\* allows has started, and the wait still polls.
C24_Witness ==
    LET r == waits[FirstWait] IN
    /\ r.stage = "polling"
    /\ Len(r.statusSeq) >= 3
    /\ \A i \in 1..Len(r.statusSeq) : r.statusSeq[i] = OPERATION_IN_PROGRESS_STATUS
    /\ r.ticks = MaxTicks
    /\ r.promise = "pending" /\ r.interval

TerminalReadable ==
    statusObject[FirstWait] \in {OPERATION_COMPLETE_STATUS, OPERATION_FAILED_STATUS}

IsSettled(r) == r.promise \in {"resolved", "rejected"}

\* C25: if from some time on a terminal status (Success or Failed) is what
\* the status object holds, the wait settles in the end, the timer firing
\* fairly and the requests that are made again and again succeeding in the
\* end.
C25_EventuallySettles ==
    (<>[]TerminalReadable) => <>IsSettled(waits[FirstWait])

\* The wait has settled on a terminal status after a status fetch and a
\* getServerLogs call of its callbacks had failed.
C25_Witness ==
    /\ TerminalReadable
    /\ IsSettled(waits[FirstWait])
    /\ waits[FirstWait].stage = "polling"
    /\ waits[FirstWait].fetchFailed
    /\ waits[FirstWait].overlapped

\* How many times the stage has started in the operation.
StageStarts(stage) ==
    Cardinality({i \in 1..Len(operation.trace) : operation.trace[i] = <<stage, "start">>})

\* C31: in one invocation the submit, the wait, the result retrieval and the
\* download each start once at most, the backend submit is called once at
\* most, and an operation that has rejected does nothing more.
C31_NoStageRetried ==
    /\ [](/\ \A stage \in {"submitting", "waiting", "fetching", "downloading"} :
               StageStarts(stage) <= 1
          /\ ContactsOf("submit") <= 1
          /\ ContactsOf("statusFetch") <= 1
          /\ ContactsOf("resultFetch") <= 1)
    /\ [][operation.stage = "rejected" => operation' = operation]_vars

\* The submit of an operation has failed and the operation has rejected.
C31_Witness ==
    /\ operation.stage = "rejected"
    /\ operation.failedIn = "submit"
    /\ ContactsOf("submit") = 1

\* C32: for Publish and Codesign the log emission does nothing: while the
\* wait polls the cursor is at the 0 it was set to, no callback awaits a log
\* fetch, none has failed in one and no text of the log was given out,
\* whatever the backend has written to the log.
C32_NoLogEmission ==
    kind \in {"Publish", "Codesign"} =>
        LET r == waits[FirstWait] IN
        /\ r.stage = "polling" => outputCursorPosition = 0
        /\ r.stage /= "polling" => outputCursorPosition = UndefinedCursor
        /\ \A st \in LoggedStatuses : r.awaitingLogs[st] = 0
        /\ ~r.logFailed
        /\ delivered[FirstWait] = <<>>

\* A Codesign wait has called getServerLogs twice while the log had text.
C32_Witness ==
    /\ kind = "Codesign"
    /\ waits[FirstWait].stage = "polling"
    /\ logLength[FirstWait] > 0
    /\ Len(waits[FirstWait].logSeq) >= 2
    /\ waits[FirstWait].logSeq[2].cursor = 0

HasMultipleTeamsMarker(stderr) ==
    includes(stderr, <<FASTLANE_MULTIPLE_TEAMS_FOUND_ERROR>>)

\* C33: the error getError of publishToGooglePlay returns has neither
\* teamNames nor packagePaths, whatever stdout and stderr hold; the error
\* getError of publishToItunesConnect returns has them only when stderr
\* holds the multi-team marker.
C33_TeamsOnlyForItunesConnectWithMarker ==
    classification.calls > 0 =>
        LET err == classification.err IN
        /\ classification.platform = "Android" =>
             ~err.hasTeamNames /\ ~err.hasPackagePaths
        /\ (classification.platform = "iOS"
            /\ (err.hasTeamNames \/ err.hasPackagePaths))
             => HasMultipleTeamsMarker(classification.publishResult.stderr)

\* getError of publishToGooglePlay was called with a stderr that holds the
\* marker and a stdout that holds a line of a team.
C33_Witness ==
    /\ classification.platform = "Android"
    /\ HasMultipleTeamsMarker(classification.publishResult.stderr)
    /\ \E i \in 1..Len(classification.publishResult.stdout) :
         classification.publishResult.stdout[i] \in TeamNumbers
    /\ ~classification.err.hasTeamNames

\* C34: once the wait has settled, no status fetch and no getServerLogs call
\* is started for it any more, callbacks that were in progress when it
\* settled included.
C34_NothingStartsAfterSettle ==
    [][IsSettled(waits[FirstWait]) =>
         /\ waits'[FirstWait].awaitingStatus <= waits[FirstWait].awaitingStatus
         /\ waits'[FirstWait].logSeq = waits[FirstWait].logSeq
         /\ \A st \in LoggedStatuses :
              waits'[FirstWait].awaitingLogs[st] <= waits[FirstWait].awaitingLogs[st]]_vars

\* C35: a status fetch of a callback that fails (it returns and no status
\* object was read) leaves the promise, the timer and the status seen before
\* as they are; a callback that starts after such a failure with the status
\* in progress calls getServerLogs again.
C35_FailedFetchKeepsPolling ==
    [][LET r == waits[FirstWait]
           r2 == waits'[FirstWait] IN
       /\ (r2.awaitingStatus = r.awaitingStatus - 1 /\ r2.statusSeq = r.statusSeq)
            => /\ r2.fetchFailed
               /\ r2.promise = r.promise /\ r2.error = r.error
               /\ r2.interval = r.interval
               /\ r2.serverStatus = r.serverStatus
       /\ (/\ r.fetchFailed
           /\ r2.ticks = r.ticks + 1
           /\ r.serverStatus = OPERATION_IN_PROGRESS_STATUS)
            => r2.logSeq = Append(r.logSeq, [cursor |-> outputCursorPosition,
                                             status |-> OPERATION_IN_PROGRESS_STATUS])]_vars

\* The status fetch of the first callback has failed, the wait is pending and
\* the second callback is in progress on the status read at the start.
C35_Witness ==
    LET r == waits[FirstWait] IN
    /\ r.fetchFailed /\ ~r.overlapped
    /\ r.promise = "pending" /\ r.interval
    /\ r.statusSeq = <<OPERATION_IN_PROGRESS_STATUS>>
    /\ r.serverStatus = OPERATION_IN_PROGRESS_STATUS
    /\ r.ticks = 2 /\ InFlight(r) = 1
    /\ Len(r.logSeq) = 2

\* C36: a callback that starts on a status that is none of Success, Failed
\* and Building calls no getServerLogs and does not settle the wait nor clear
\* the timer: it fetches the status object and that is all.
C36_OtherStatusOnlyFetchesAgain ==
    [][LET r == waits[FirstWait]
           r2 == waits'[FirstWait] IN
       (r2.ticks = r.ticks + 1 /\ r.serverStatus \notin LoggedStatuses)
         => /\ r2.logSeq = r.logSeq
            /\ r2.awaitingLogs = r.awaitingLogs
            /\ r2.awaitingStatus = r.awaitingStatus + 1
            /\ r2.promise = r.promise /\ r2.error = r.error
            /\ r2.interval /\ r2.serverStatus = r.serverStatus
            /\ outputCursorPosition' = outputCursorPosition
            /\ delivered' = delivered]_vars

\* Two status objects with another status were read, two callbacks have
\* started on them and the wait still polls, no getServerLogs called.
C36_Witness ==
    LET r == waits[FirstWait] IN
    /\ r.statusSeq = <<OtherStatus, OtherStatus>>
    /\ r.ticks = 2
    /\ r.logSeq = <<>>
    /\ r.promise = "pending" /\ r.interval
    /\ r.awaitingStatus = 1

\* C37: publishCore fetches the result object when its wait has ended,
\* resolved or rejected, and the publish resolves if and only if that fetch
\* gave a result with code 0 and empty errors.
C37_PublishResolvesOnResultOnly ==
    (operation.name \in PublishNames /\ operation.waitOutcome /= "none") =>
        /\ ContactsOf("resultFetch") = 1
        /\ operation.stage \in {"fetching", "resolved", "rejected"}
        /\ operation.stage = "fetching" <=> ~operation.hasResult /\ operation.failedIn = "none"
        /\ operation.stage = "resolved" <=>
             /\ operation.hasResult
             /\ operation.result.code = 0
             /\ operation.result.errors = <<>>
        /\ operation.stage = "rejected" =>
             operation.failedIn = (IF operation.hasResult THEN "result" ELSE "resultFetch")

\* A publish has resolved after a wait that rejected on the status Failed.
C37_Witness ==
    /\ operation.name \in PublishNames
    /\ operation.waitOutcome = "rejected"
    /\ operation.terminalStatus = OPERATION_FAILED_STATUS
    /\ operation.stage = "resolved"

\* The prepared paths of a list of package paths: each file that exists
\* locally replaced by where it was uploaded to, the other paths as they are.
PreparedPaths(packagePaths) ==
    [i \in 1..Len(packagePaths) |->
        IF exists(packagePaths[i]) THEN uploadToS3(packagePaths[i]) ELSE packagePaths[i]]

\* The paths of packagePaths that are local files, in order.
LocalPaths(packagePaths) == SelectSeq(packagePaths, exists)

\* C38: the package paths submitted, and those on a multi-team error, are
\* the prepared paths of the caller's packagePaths, in the same order and
\* number; one upload at most is in flight at any time, the paths prepared
\* so far are those of the caller's paths before the upload in flight, and
\* at the submit every local file has been uploaded.
C38_PreparedPathsSubmitted ==
    operation.name \in PublishNames =>
        LET paths == operation.input.packagePaths
            uploading == operation.stage = "uploading" IN
        /\ ContactsOf("upload") - operation.uploadsEnded = (IF uploading THEN 1 ELSE 0)
        /\ uploading =>
             /\ Len(operation.preparedPackagePaths) < Len(paths)
             /\ operation.preparedPackagePaths =
                  PreparedPaths(SubSeq(paths, 1, Len(operation.preparedPackagePaths)))
             /\ exists(paths[Len(operation.preparedPackagePaths) + 1])
             /\ ContactsOf("submit") = 0
        /\ ContactsOf("submit") > 0 =>
             /\ operation.payloadPackagePaths = PreparedPaths(paths)
             /\ operation.uploadsEnded = Len(LocalPaths(paths))
             /\ \A i, j \in 1..Len(operation.contacts) :
                  (operation.contacts[i] = "upload" /\ operation.contacts[j] = "submit")
                  => i < j
        /\ operation.err.hasPackagePaths =>
             operation.err.packagePaths = PreparedPaths(paths)

\* A publish of a url followed by a local file was rejected with a
\* multi-team error that carries the package paths.
C38_Witness ==
    /\ operation.name = "publishToItunesConnect"
    /\ operation.input.packagePaths = <<"https://host/app.ipa", "app.ipa">>
    /\ operation.stage = "rejected"
    /\ operation.err.hasPackagePaths
    /\ operation.err.packagePaths = <<"https://host/app.ipa", "https://s3/app.ipa">>

====
